---- MODULE Spec2Model ----
(***************************************************************************)
(* A model of packages/htmlbars-runtime/lib/template.ts: the template AST,         *)
(* its decoding from the wire format (fromSpec), its programmatic          *)
(* construction (build / TemplateBuilder), statement evaluation against an *)
(* ElementStack and a Frame, the composite argument model and the debug    *)
(* dump (prettyPrint).                                                     *)
(*                                                                         *)
(* JavaScript values.  A primitive is a TLA+ string: a JS string is        *)
(* itself, and the primitives that are not strings are written with a      *)
(* leading '#' ("#null", "#undefined", "#true", "#false", "#1"); no JS     *)
(* string of the model starts with '#'.  An object is a record with a      *)
(* `type` field; a null or undefined object reference is the record        *)
(* NullRef or UndefRef.  A thrown exception is the record TypeError.       *)
(***************************************************************************)
EXTENDS Integers, Sequences, FiniteSets, TLC

VARIABLES
  specs,      \* the wire-format array handed to Template.fromSpec
  frame,      \* the Frame: component definitions, helpers, scope values
  arrays,     \* the heap of statement arrays (array identity matters)
  templates,  \* the heap of Template objects
  origin,     \* for each Template of the heap, the operation that made it
  builder,    \* the TemplateBuilder (its statements array), or NoResult
  heldTemplate, \* the Template the driving program holds, or NoResult
  stack,      \* the ElementStack of the last evaluation
  result,     \* what the last operation returned or threw
  dump,       \* the last prettyPrint output
  pc,         \* the position of the driving program
  parity,     \* a statement given both ways: its wire form and its build call
  decodedNode, \* the node fromSpec made of it
  builtNode,  \* the node build made of it
  outDecoded, \* the stack after evaluating the decoded node, or TypeError
  outBuilt,   \* the stack after evaluating the built node, or TypeError
  subject,    \* an expression (a Hash, a Concat) under evaluation
  reference,  \* the reference its evaluation returned
  evals,      \* the leaf expressions evaluated against the frame, in order
  lookupKey,  \* the key looked up in an EvaluatedHash
  notified,   \* the last invalidation pushed and the composite references it reached
  pulled      \* what the last value() of a composite reference returned

vars == <<specs, frame, arrays, templates, origin, builder, heldTemplate, stack, result,
          dump, pc, parity, decodedNode, builtNode, outDecoded, outBuilt, subject, reference,
          evals, lookupKey, notified, pulled>>

----------------------------------------------------------------------------
(* Primitives and references *)

JsNull == "#null"
JsUndefined == "#undefined"
JsTrue == "#true"
JsFalse == "#false"

NullRef == [type |-> "null"]
UndefRef == [type |-> "undefined"]
TypeError == [type |-> "TypeError"]
NoResult == [type |-> "none"]

IsError(v) == v.type = "TypeError"

\* the rest F of a computation that goes on with the value v unless v is a
\* thrown exception, which goes on up
Try(v, F(_)) == IF IsError(v) THEN TypeError ELSE F(v)
IsNullish(v) == v.type \in {"null", "undefined"}

\* JS truthiness of a primitive
Truthy(v) == v \notin {JsNull, JsUndefined, JsFalse, "#0", ""}

\* `x || y` on object references
OrElse(x, y) == IF IsNullish(x) THEN y ELSE x

\* the property names every plain object inherits from Object.prototype
ObjectPrototypeKeys ==
  {"constructor", "toString", "valueOf", "hasOwnProperty", "__proto__"}

\* `key in obj` for a plain object literal with the own keys `keys`
InOperator(key, keys) == key \in keys \cup ObjectPrototypeKeys

----------------------------------------------------------------------------
(* Expression AST *)

Value(v) == [type |-> "value", isStatic |-> TRUE, value |-> v]

Ref(parts) == [type |-> "ref", isStatic |-> FALSE, parts |-> parts]

Get(ref) == [type |-> "get", isStatic |-> FALSE, ref |-> ref]

NewParams(exprs) == [type |-> "params", isStatic |-> FALSE, params |-> exprs]

NewHash(keys, values) ==
  [type |-> "hash", isStatic |-> FALSE, keys |-> keys, values |-> values]

NewParamsAndHash(params, hash) ==
  [type |-> "paramsAndHash", isStatic |-> FALSE, params |-> params, hash |-> hash]

NewHelper(ref, args) ==
  [type |-> "helper", isStatic |-> FALSE, ref |-> ref, args |-> args]

NewConcat(parts) == [type |-> "concat", isStatic |-> FALSE, parts |-> parts]

ParamsEmpty == NewParams(<<>>)

HashEmpty == NewHash(<<>>, <<>>)

ParamsAndHashEmpty == NewParamsAndHash(ParamsEmpty, HashEmpty)

ExpressionNodes == {"get", "helper", "concat"}

\* an expression of the wire format is a literal [k |-> "lit", v |-> primitive]
\* or a tagged array [k |-> "arr", tag |-> ..., ...]; a params or hash field is
\* an array [k |-> "arr", items |-> <<...>>] or absent [k |-> "absent"]
RECURSIVE buildExpression(_)
RECURSIVE ParamsFromSpec(_)
RECURSIVE HashFromSpec(_)

AnyError(seq) == \E i \in 1..Len(seq) : IsError(seq[i])

\* the same for the results of a map: the first exception thrown ends it
TryAll(seq, F(_)) == IF AnyError(seq) THEN TypeError ELSE F(seq)

ParamsAndHashFromSpec(params, hash) ==
  Try(ParamsFromSpec(params),
      LAMBDA p : Try(HashFromSpec(hash), LAMBDA h : NewParamsAndHash(p, h)))

ParamsFromSpec(sexp) ==
  IF sexp.k = "absent" \/ Len(sexp.items) = 0 THEN ParamsEmpty
  ELSE TryAll([i \in 1..Len(sexp.items) |-> buildExpression(sexp.items[i])],
              LAMBDA exprs : NewParams(exprs))

\* rawPairs is flat: key, expression, key, expression, ...; an odd trailing
\* key reads its expression as undefined
RawKeys(items) == [j \in 1..((Len(items) + 1) \div 2) |-> items[2 * j - 1].v]

RawValues(items) ==
  [j \in 1..((Len(items) + 1) \div 2) |->
     IF 2 * j <= Len(items) THEN buildExpression(items[2 * j]) ELSE Value(JsUndefined)]

HashFromSpec(rawPairs) ==
  IF rawPairs.k = "absent" THEN HashEmpty
  ELSE TryAll(RawValues(rawPairs.items),
              LAMBDA values : NewHash(RawKeys(rawPairs.items), values))

GetFromSpec(sexp) == Get(Ref(sexp.path))

HelperFromSpec(sexp) ==
  Try(ParamsAndHashFromSpec(sexp.params, sexp.hash),
      LAMBDA args : NewHelper(Ref(sexp.path), args))

ConcatFromSpec(sexp) ==
  Try(ParamsFromSpec(sexp.params), LAMBDA parts : NewConcat(parts))

\* a lenient decoder: a tagged array of an unknown tag is taken as a value
buildExpression_Mut(spec) ==
  IF spec.k = "lit" THEN Value(spec.v)
  ELSE CASE spec.tag = "get" -> GetFromSpec(spec)
         [] spec.tag = "helper" -> HelperFromSpec(spec)
         [] spec.tag = "concat" -> ConcatFromSpec(spec)
         [] OTHER -> Value(JsUndefined)

buildExpression(spec) ==
  IF spec.k = "lit" THEN Value(spec.v)
  ELSE IF spec.tag \notin ExpressionNodes THEN TypeError
  ELSE CASE spec.tag = "get" -> GetFromSpec(spec)
         [] spec.tag = "helper" -> HelperFromSpec(spec)
         [] spec.tag = "concat" -> ConcatFromSpec(spec)

----------------------------------------------------------------------------
(* Templates pairing and Template *)

NewTemplates(template, inverse) ==
  [type |-> "templates", isStatic |-> FALSE, _default |-> template, _inverse |-> inverse]

\* a Template object is referred to by its place in the heap `templates`
TemplateRef(id) == [type |-> "template", id |-> id]

\* an index taken one place too far
ChildAt_Mut(children, id) ==
  IF id.n + 1 < Len(children) THEN children[id.n + 2] ELSE UndefRef

\* children[id] of a JS array whose first Len(children) slots are filled and
\* whose other slots are holes; id is a 0-based index or NullRef
ChildAt(children, id) ==
  IF id.n < Len(children) THEN children[id.n + 1] ELSE UndefRef

TemplatesFromSpec(templateId, inverseId, children) ==
  NewTemplates(IF templateId.type = "null" THEN NullRef ELSE ChildAt(children, templateId),
               IF inverseId.type = "null" THEN NullRef ELSE ChildAt(children, inverseId))

TemplatesBuild(template, inverse) == NewTemplates(template, inverse)

\* a constructor that drops the isEmpty option
NewTemplate_Mut(root, position, locals, statements, isEmpty) ==
  [type |-> "templateObject",
   root |-> root,
   position |-> position,
   arity |-> IF locals.type = "null" THEN 0 ELSE Len(locals.items),
   statements |-> statements,
   locals |-> IF locals.type = "null" THEN <<>> ELSE locals.items,
   isEmpty |-> FALSE]

\* new Template({...}): meta is left out; `statements` is a reference into `arrays`
NewTemplate(root, position, locals, statements, isEmpty) ==
  [type |-> "templateObject",
   root |-> root,
   position |-> position,
   arity |-> IF locals.type = "null" THEN 0 ELSE Len(locals.items),
   statements |-> statements,
   locals |-> IF locals.type = "null" THEN <<>> ELSE locals.items,
   isEmpty |-> isEmpty]

----------------------------------------------------------------------------
(* Statement AST: constructors *)

NewBlock(path, args, templates_) ==
  [type |-> "block", isStatic |-> FALSE, path |-> path, args |-> args,
   templates |-> templates_, frontBoundary |-> FALSE, backBoundary |-> FALSE]

\* this.trustingMorph = !!options.unsafe
NewUnknown(ref, unsafe) ==
  [type |-> "unknown", isStatic |-> FALSE, ref |-> ref,
   trustingMorph |-> IF Truthy(unsafe) THEN JsTrue ELSE JsFalse,
   frontBoundary |-> FALSE, backBoundary |-> FALSE]

NewInline(path, trustingMorph, args) ==
  [type |-> "inline", isStatic |-> FALSE, path |-> path,
   trustingMorph |-> trustingMorph, args |-> args,
   frontBoundary |-> FALSE, backBoundary |-> FALSE]

\* the constructor of DynamicProp has no namespace field
NewDynamicProp(name, value) ==
  [type |-> "dynamic-prop", isStatic |-> FALSE, name |-> name, value |-> value,
   frontBoundary |-> FALSE, backBoundary |-> FALSE]

NewDynamicAttr(name, value, namespace) ==
  [type |-> "dynamic-attr", isStatic |-> FALSE, name |-> name, value |-> value,
   namespace |-> namespace, frontBoundary |-> FALSE, backBoundary |-> FALSE]

NewComponent(path, hash, templates_) ==
  [type |-> "component", isStatic |-> FALSE, path |-> path, hash |-> hash,
   templates |-> templates_, frontBoundary |-> FALSE, backBoundary |-> FALSE]

NewText(content) ==
  [type |-> "text", isStatic |-> TRUE, content |-> content,
   frontBoundary |-> FALSE, backBoundary |-> FALSE]

NewComment(value) ==
  [type |-> "comment", isStatic |-> TRUE, value |-> value,
   frontBoundary |-> FALSE, backBoundary |-> FALSE]

NewOpenElement(tag) ==
  [type |-> "open-element", isStatic |-> TRUE, tag |-> tag,
   frontBoundary |-> FALSE, backBoundary |-> FALSE]

NewCloseElement ==
  [type |-> "close-element", isStatic |-> TRUE,
   frontBoundary |-> FALSE, backBoundary |-> FALSE]

NewStaticAttr(name, value, namespace) ==
  [type |-> "static-attr", isStatic |-> TRUE, name |-> name, value |-> value,
   namespace |-> namespace, frontBoundary |-> FALSE, backBoundary |-> FALSE]

----------------------------------------------------------------------------
(* Statement AST: decoding.  A statement of the wire format is a record    *)
(* whose `head` is statement[0] and whose other fields are the positional  *)
(* fields under the names the decoder destructures them to.                *)

BlockFromSpec(sexp, children) ==
  Try(ParamsAndHashFromSpec(sexp.params, sexp.hash),
      LAMBDA args : NewBlock(sexp.path, args,
                             TemplatesFromSpec(sexp.templateId, sexp.inverseId, children)))

UnknownFromSpec(sexp) == NewUnknown(Ref(sexp.path), sexp.unsafe)

InlineFromSpec(sexp) ==
  Try(ParamsAndHashFromSpec(sexp.params, sexp.hash),
      LAMBDA args : NewInline(sexp.path, sexp.trust, args))

DynamicPropFromSpec(sexp) ==
  Try(buildExpression(sexp.value), LAMBDA value : NewDynamicProp(sexp.name, value))

DynamicAttrFromSpec(sexp) ==
  Try(buildExpression(sexp.value),
      LAMBDA value : NewDynamicAttr(sexp.name, value, sexp.namespace))

ComponentFromSpec(node, children) ==
  Try(HashFromSpec(node.attrs),
      LAMBDA hash : NewComponent(Ref(<<node.path>>), hash,
                                 TemplatesFromSpec(node.templateId, node.inverseId, children)))

TextFromSpec(node) == NewText(node.content)

CommentFromSpec(sexp) == NewComment(sexp.value)

OpenElementFromSpec(sexp) == NewOpenElement(sexp.tag)

CloseElementFromSpec == NewCloseElement

\* the value of the wire form is held as a literal [k |-> "lit", v |-> ...]
StaticAttrFromSpec(node) == NewStaticAttr(node.name, node.value.v, node.namespace)

\* the keys of the statement dispatch table
StatementNodes ==
  {"block", "inline", "unknown", "dynamicAttr", "dynamicProp", "component",
   "text", "comment", "openElement", "closeElement", "staticAttr"}

BOUNDARY_CANDIDATES == {"block", "inline", "unknown", "component"}

\* StatementNodes[statement[0]].fromSpec(statement, list): a tag that is no
\* own key reads undefined (or an inherited Object.prototype member, which has
\* no fromSpec), and the call throws
StatementFromSpec(statement, list) ==
  IF statement.head \notin StatementNodes THEN TypeError
  ELSE CASE statement.head = "block" -> BlockFromSpec(statement, list)
         [] statement.head = "inline" -> InlineFromSpec(statement)
         [] statement.head = "unknown" -> UnknownFromSpec(statement)
         [] statement.head = "dynamicAttr" -> DynamicAttrFromSpec(statement)
         [] statement.head = "dynamicProp" -> DynamicPropFromSpec(statement)
         [] statement.head = "component" -> ComponentFromSpec(statement, list)
         [] statement.head = "text" -> TextFromSpec(statement)
         [] statement.head = "comment" -> CommentFromSpec(statement)
         [] statement.head = "openElement" -> OpenElementFromSpec(statement)
         [] statement.head = "closeElement" -> CloseElementFromSpec
         [] statement.head = "staticAttr" -> StaticAttrFromSpec(statement)

\* the one frozen empty array, allocated first in `arrays`
EMPTY_ARRAY == 1

\* built[0].frontBoundary = true; built[built.length - 1].backBoundary = true
MarkFront(statements, built) ==
  IF InOperator(statements[1].head, BOUNDARY_CANDIDATES)
  THEN [built EXCEPT ![1].frontBoundary = TRUE]
  ELSE built

MarkBack(statements, built) ==
  IF InOperator(statements[Len(statements)].head, BOUNDARY_CANDIDATES)
  THEN [built EXCEPT ![Len(built)].backBoundary = TRUE]
  ELSE built

\* a marking of every eligible statement, wherever it stands
MarkBoundaries_Mut(statements, built) ==
  [i \in 1..Len(built) |->
     IF InOperator(statements[i].head, BOUNDARY_CANDIDATES)
     THEN [built[i] EXCEPT !.frontBoundary = TRUE, !.backBoundary = TRUE]
     ELSE built[i]]

MarkBoundaries(statements, built) == MarkBack(statements, MarkFront(statements, built))

\* buildStatements(statements, list) on the heap `arrs`: the array it returns
\* and the heap after it, or TypeError
buildStatements(statements, list, arrs) ==
  IF Len(statements) = 0 THEN [type |-> "array", ref |-> EMPTY_ARRAY, arrays |-> arrs]
  ELSE TryAll([i \in 1..Len(statements) |-> StatementFromSpec(statements[i], list)],
              LAMBDA built : [type |-> "array",
                              ref |-> Len(arrs) + 1,
                              arrays |-> Append(arrs, MarkBoundaries(statements, built))])

\* the loop of Template.fromSpec from index i (0-based) on: the Template heap
\* and the array heap after it, or TypeError; the templates of one call share
\* the root array, which is the heap segment starting after `base`
RECURSIVE fromSpecLoop(_, _, _, _, _)
fromSpecLoop(specs_, i, base, tmpls, arrs) ==
  IF i >= Len(specs_) THEN [type |-> "heaps", templates |-> tmpls, arrays |-> arrs]
  ELSE Try(buildStatements(specs_[i + 1].statements,
                           [j \in 1..i |-> TemplateRef(base + j)], arrs),
           LAMBDA built :
             fromSpecLoop(specs_, i + 1, base,
               Append(tmpls, NewTemplate([type |-> "root", base |-> base, length |-> Len(specs_)],
                                         [type |-> "num", n |-> i],
                                         specs_[i + 1].locals,
                                         built.ref,
                                         Len(specs_[i + 1].statements) = 0)),
               built.arrays))

\* Template.fromSpec(specs): templates[templates.length - 1], or TypeError
TemplateFromSpec(specs_, tmpls, arrs) ==
  Try(fromSpecLoop(specs_, 0, Len(tmpls), tmpls, arrs),
      LAMBDA r : [type |-> "fromSpec",
                  templates |-> r.templates,
                  arrays |-> r.arrays,
                  ret |-> IF Len(specs_) = 0 THEN UndefRef
                          ELSE TemplateRef(Len(tmpls) + Len(specs_))])

\* Template.fromStatements(statements): the array is kept, not copied
TemplateFromStatements(statements, arrs) ==
  NewTemplate(NullRef, NullRef, NullRef, statements, Len(arrs[statements]) = 0)

----------------------------------------------------------------------------
(* Strings *)

\* intern(str) returns the string it is given (it only makes the engine keep
\* one copy); null stays null
intern(str) == str

\* path.split('.') on the path strings of the model
Split(path) ==
  CASE path = "a.b" -> <<"a", "b">>
    [] path = "x-foo.bar" -> <<"x-foo", "bar">>
    [] OTHER -> <<path>>

internPath(path) == [i \in 1..Len(Split(path)) |-> intern(Split(path)[i])]

\* String(v) of a primitive, as Array.prototype.join applies it: null and
\* undefined give the empty string
JoinString(v) ==
  CASE v \in {JsNull, JsUndefined} -> ""
    [] v = JsTrue -> "true"
    [] v = JsFalse -> "false"
    [] v = "#0" -> "0"
    [] v = "#1" -> "1"
    [] v = "#2" -> "2"
    [] OTHER -> v

RECURSIVE Join(_, _)
Join(seq, sep) ==
  IF Len(seq) = 0 THEN ""
  ELSE IF Len(seq) = 1 THEN JoinString(seq[1])
  ELSE JoinString(seq[1]) \o sep \o Join(Tail(seq), sep)

----------------------------------------------------------------------------
(* The Frame and the references, from their contracts: a reference is the  *)
(* record of how its value is pulled.                                      *)

ConstReference(v) == [type |-> "ConstReference", inner |-> v]

\* frame.scope().getBase(parts[0]).get(parts[1])...
PathReference(parts) == [type |-> "PathReference", parts |-> parts]

hasHelper(frame_, path) == path \in frame_.helpers

\* frame.lookupHelper(path): a constant reference to the helper function
lookupHelper(frame_, path) ==
  [type |-> "HelperReference",
   helper |-> IF path \in frame_.helpers THEN [type |-> "helper", path |-> path]
              ELSE UndefRef]

\* frame.getComponentDefinition(path, syntax): the definition, or nothing
getComponentDefinition(frame_, path) ==
  IF path \in frame_.components THEN [type |-> "definition", path |-> path]
  ELSE UndefRef

----------------------------------------------------------------------------
(* Expression evaluation *)

NewEvaluatedParams(references) ==
  [type |-> "EvaluatedParams", references |-> references, sources |-> references]

NewEvaluatedHash(keys, values) ==
  [type |-> "EvaluatedHash", keys |-> keys, values |-> values, sources |-> values]

\* only the params reference is added as a source
NewEvaluatedParamsAndHash(paramsRef, hashRef) ==
  [type |-> "EvaluatedParamsAndHash", paramsRef |-> paramsRef, hashRef |-> hashRef,
   sources |-> <<paramsRef>>]

HelperInvocationReference(helper, args) ==
  [type |-> "HelperInvocationReference", helper |-> helper, args |-> args,
   sources |-> <<helper, args>>]

\* each part chains the new reference
ConcatReference(parts) ==
  [type |-> "ConcatReference", parts |-> parts, sources |-> parts]

RECURSIVE ExprEvaluate(_, _)

RefEvaluate(ref, frame_) == PathReference(ref.parts)

ParamsEvaluate(params, frame_) ==
  TryAll([i \in 1..Len(params.params) |-> ExprEvaluate(params.params[i], frame_)],
         LAMBDA references : NewEvaluatedParams(references))

HashEvaluate(hash, frame_) ==
  TryAll([i \in 1..Len(hash.values) |-> ExprEvaluate(hash.values[i], frame_)],
         LAMBDA values : NewEvaluatedHash(hash.keys, values))

\* new EvaluatedParamsAndHash(this, frame): params.evaluate and hash.evaluate
\* are method calls, which throw on a null params or hash
ParamsAndHashEvaluate(args, frame_) ==
  IF IsNullish(args) THEN TypeError
  ELSE IF IsNullish(args.params) \/ IsNullish(args.hash) THEN TypeError
  ELSE Try(ParamsEvaluate(args.params, frame_),
           LAMBDA paramsRef :
             Try(HashEvaluate(args.hash, frame_),
                 LAMBDA hashRef : NewEvaluatedParamsAndHash(paramsRef, hashRef)))

EvaluatedParamsAndHashEmpty == ParamsAndHashEvaluate(ParamsAndHashEmpty, NullRef)

HelperEvaluate(expr, frame_) ==
  Try(ParamsAndHashEvaluate(expr.args, frame_),
      LAMBDA args : HelperInvocationReference(lookupHelper(frame_, expr.ref.parts), args))

ConcatEvaluate(expr, frame_) ==
  TryAll([i \in 1..Len(expr.parts.params) |-> ExprEvaluate(expr.parts.params[i], frame_)],
         LAMBDA parts : ConcatReference(parts))

ExprEvaluate(expr, frame_) ==
  CASE expr.type = "value" -> ConstReference(expr.value)
    [] expr.type = "get" -> RefEvaluate(expr.ref, frame_)
    [] expr.type = "ref" -> RefEvaluate(expr, frame_)
    [] expr.type = "helper" -> HelperEvaluate(expr, frame_)
    [] expr.type = "concat" -> ConcatEvaluate(expr, frame_)
    [] expr.type = "evaluatedRef" -> expr.ref
    [] OTHER -> TypeError

\* the evaluate calls expr.evaluate(frame) makes on the leaf expressions
\* (Value and Ref), in call order; Hash.evaluate evaluates every value once
\* in its own loop and once more in the EvaluatedHash constructor
RECURSIVE Evaluations(_)
RECURSIVE EvaluationsOfAll(_)
EvaluationsOfAll(exprs) ==
  IF Len(exprs) = 0 THEN <<>>
  ELSE Evaluations(exprs[1]) \o EvaluationsOfAll(Tail(exprs))

Evaluations(expr) ==
  CASE expr.type \in {"value", "ref"} -> <<expr>>
    [] expr.type = "get" -> <<expr.ref>>
    [] expr.type = "params" -> EvaluationsOfAll(expr.params)
    [] expr.type = "hash" -> EvaluationsOfAll(expr.values) \o EvaluationsOfAll(expr.values)
    [] expr.type = "paramsAndHash" -> Evaluations(expr.params) \o Evaluations(expr.hash)
    [] expr.type = "helper" -> Evaluations(expr.args)
    [] expr.type = "concat" -> EvaluationsOfAll(expr.parts.params)
    [] OTHER -> <<>>

\* scope lookup of a path: the scope maps the dotted path to its value
ScopeValue(scope, parts) ==
  IF Join(parts, ".") \in DOMAIN scope THEN scope[Join(parts, ".")] ELSE JsUndefined

\* EvaluatedHash.at(key): keys.some stops at the first key that matches
RECURSIVE SomeKey(_, _, _)
SomeKey(hashRef, key, i) ==
  IF i > Len(hashRef.keys) THEN NullRef
  ELSE IF hashRef.keys[i] = key THEN hashRef.values[i]
  ELSE SomeKey(hashRef, key, i + 1)

\* a scan that goes on after a match, so that the last match is kept
RECURSIVE EveryKey(_, _, _, _)
EveryKey(hashRef, key, i, ret) ==
  IF i > Len(hashRef.keys) THEN ret
  ELSE EveryKey(hashRef, key, i + 1, IF hashRef.keys[i] = key THEN hashRef.values[i] ELSE ret)

EvaluatedHashAt_Mut(hashRef, key) == EveryKey(hashRef, key, 1, NullRef)

EvaluatedHashAt(hashRef, key) == SomeKey(hashRef, key, 1)

\* reference.value() for the references whose value is a primitive
RECURSIVE RefValue(_, _)
\* a join that puts a comma between the parts
ConcatReferenceValue_Mut(ref, scope) ==
  Join([i \in 1..Len(ref.parts) |-> RefValue(ref.parts[i], scope)], ",")

ConcatReferenceValue(ref, scope) ==
  Join([i \in 1..Len(ref.parts) |-> RefValue(ref.parts[i], scope)], "")

RefValue(ref, scope) ==
  CASE ref.type = "ConstReference" -> ref.inner
    [] ref.type = "PathReference" -> ScopeValue(scope, ref.parts)
    [] ref.type = "ConcatReference" -> ConcatReferenceValue(ref, scope)

----------------------------------------------------------------------------
(* Programmatic construction: the static build methods *)

BlockBuild(options) == NewBlock(options.path, options.args, options.templates)

RefBuild(path) == Ref(internPath(path))

UnknownBuild(path, unsafe) == NewUnknown(RefBuild(path), unsafe)

InlineBuild(_path, args, trust) == NewInline(internPath(_path), trust, args)

DynamicPropBuild(name, value) == NewDynamicProp(name, value)

\* _namespace defaults to null
DynamicAttrBuild(_name, value, _namespace) ==
  NewDynamicAttr(intern(_name), value,
                 IF Truthy(_namespace) THEN intern(_namespace) ELSE JsNull)

\* hash: options.hash || null
ComponentBuild(path, options) ==
  NewComponent(RefBuild(path), OrElse(options.hash, NullRef),
               TemplatesBuild(options.default, options.inverse))

TextBuild(content) == NewText(content)

CommentBuild(value) == NewComment(value)

OpenElementBuild(tag) == NewOpenElement(tag)

CloseElementBuild == NewCloseElement

\* namespace && intern(namespace), namespace defaulting to null
StaticAttrBuild(name, value, namespace) ==
  NewStaticAttr(intern(name), intern(value),
                IF namespace = JsUndefined THEN JsNull
                ELSE IF Truthy(namespace) THEN intern(namespace) ELSE namespace)

ValueBuild(value) == Value(value)

GetBuild(path) == Get(RefBuild(path))

ParamsBuild(exprs) == NewParams(exprs)

ParamsAndHashBuild(params, hash) == NewParamsAndHash(params, hash)

HelperBuild(path, params, hash) == NewHelper(RefBuild(path), NewParamsAndHash(params, hash))

ConcatBuild(parts) == NewConcat(parts)

\* Hash.build(dict): the dictionary is given as its entries in key order,
\* [type |-> "dict", keys |-> ..., values |-> ...], or is undefined
HashBuild(hash) ==
  IF hash.type = "undefined" THEN HashEmpty ELSE NewHash(hash.keys, hash.values)

\* the methods the class body of TemplateBuilder declares for dynamicAttr and
\* inline; the loop at the end of the module installs a generated method under
\* every key of `builders`, these two included, so these are never the ones called
DeclaredDynamicAttr(key, value, namespace) == DynamicAttrBuild(key, value, JsUndefined)

DeclaredInline(path, params, trust) == InlineBuild(path, params, trust)

\* builders[key](...args): a call of the model is [key |-> ..., ...arguments]
builders(call) ==
  CASE call.key = "value" -> ValueBuild(call.value)
    [] call.key = "hash" -> HashBuild(call.hash)
    [] call.key = "block" -> BlockBuild(call.options)
    [] call.key = "inline" -> InlineBuild(call.path, call.args, call.trust)
    [] call.key = "unknown" -> UnknownBuild(call.path, call.unsafe)
    [] call.key = "dynamicAttr" -> DynamicAttrBuild(call.name, call.value, call.namespace)
    [] call.key = "dynamicProp" -> DynamicPropBuild(call.name, call.value)
    [] call.key = "component" -> ComponentBuild(call.path, call.options)
    [] call.key = "text" -> TextBuild(call.content)
    [] call.key = "comment" -> CommentBuild(call.value)
    [] call.key = "openElement" -> OpenElementBuild(call.tag)
    [] call.key = "closeElement" -> CloseElementBuild
    [] call.key = "staticAttr" -> StaticAttrBuild(call.name, call.value, call.namespace)

----------------------------------------------------------------------------
(* The ElementStack, from its contract: the calls made on it, in order, and *)
(* the render nodes created on it.                                           *)

NewElementStack == [type |-> "ElementStack", calls |-> <<>>, morphs |-> <<>>]

StackCall(stack_, call) == [stack_ EXCEPT !.calls = Append(@, call)]

\* a conversion that keeps every entry dynamic
FallbackAttr_Mut(key, val, frame_) == DynamicAttrBuild(key, val, JsUndefined)

\* FallbackMorph.init({ path, hash, template })
FallbackAttr(key, val, frame_) ==
  IF val.isStatic
  THEN StaticAttrBuild(key, RefValue(ExprEvaluate(val, frame_), frame_.scope), JsUndefined)
  ELSE DynamicAttrBuild(key, val, JsUndefined)

FallbackMorphInit(options, frame_) ==
  IF IsNullish(options.hash) THEN TypeError
  ELSE [type |-> "FallbackMorph",
        tag |-> options.path[1],
        template |-> options.template,
        attrs |-> [i \in 1..Len(options.hash.values) |->
                     FallbackAttr(options.hash.keys[i], options.hash.values[i], frame_)]]

\* the other render nodes keep the options they are initialized with
MorphInit(Kind, options, frame_) ==
  IF Kind = "FallbackMorph" THEN FallbackMorphInit(options, frame_)
  ELSE [type |-> Kind, options |-> options]

\* stack.createMorph / stack.createContentMorph: instantiate the node,
\* initialize it and add it to the render-node list
createMorph(stack_, Kind, options, frame_) ==
  Try(MorphInit(Kind, options, frame_),
      LAMBDA morph :
        [stack_ EXCEPT !.calls = Append(@, [op |-> "createMorph", kind |-> Kind]),
                       !.morphs = Append(@, morph)])

createContentMorph(stack_, Kind, options, frame_) ==
  Try(MorphInit(Kind, options, frame_),
      LAMBDA morph :
        [stack_ EXCEPT !.calls = Append(@, [op |-> "createContentMorph", kind |-> Kind]),
                       !.morphs = Append(@, morph)])

----------------------------------------------------------------------------
(* Statement evaluation: the stack after statement.evaluate(stack, frame),  *)
(* or TypeError                                                             *)

BlockEvaluate(node, stack_, frame_) ==
  Try(ParamsAndHashEvaluate(node.args, frame_),
      LAMBDA args :
        createContentMorph(stack_, "BlockHelperMorph",
          [helper |-> lookupHelper(frame_, node.path), args |-> args,
           templates |-> node.templates], frame_))

\* a resolution that goes to the scope without asking for a helper
UnknownContent_Mut(node, frame_) == RefEvaluate(node.ref, frame_)

UnknownContent(node, frame_) ==
  IF hasHelper(frame_, node.ref.parts)
  THEN HelperInvocationReference(lookupHelper(frame_, node.ref.parts),
                                 EvaluatedParamsAndHashEmpty)
  ELSE RefEvaluate(node.ref, frame_)

UnknownEvaluate(node, stack_, frame_) ==
  createContentMorph(stack_, "InsertionMorph",
    [content |-> UnknownContent(node, frame_), trustingMorph |-> node.trustingMorph], frame_)

InlineEvaluate(node, stack_, frame_) ==
  Try(ParamsAndHashEvaluate(node.args, frame_),
      LAMBDA args :
        createContentMorph(stack_, "HelperMorph",
          [content |-> HelperInvocationReference(lookupHelper(frame_, node.path), args),
           trustingMorph |-> node.trustingMorph], frame_))

\* the value option is the expression itself
DynamicPropEvaluate(node, stack_, frame_) ==
  createMorph(stack_, "SetPropertyMorph", [name |-> node.name, value |-> node.value], frame_)

DynamicAttrEvaluate(node, stack_, frame_) ==
  Try(ExprEvaluate(node.value, frame_),
      LAMBDA value :
        createMorph(stack_, "AttrMorph",
          [name |-> node.name, value |-> value, namespace |-> node.namespace], frame_))

ComponentEvaluate(node, stack_, frame_) ==
  IF ~IsNullish(getComponentDefinition(frame_, node.path.parts))
  THEN createContentMorph(stack_, "ComponentMorph",
         [definition |-> getComponentDefinition(frame_, node.path.parts),
          attrs |-> node.hash, template |-> node.templates._default], frame_)
  ELSE IF hasHelper(frame_, node.path.parts)
  THEN Try(ParamsAndHashEvaluate(NewParamsAndHash(ParamsEmpty, node.hash), frame_),
           LAMBDA args :
             createContentMorph(stack_, "BlockHelperMorph",
               [helper |-> lookupHelper(frame_, node.path.parts), args |-> args,
                templates |-> node.templates], frame_))
  ELSE createContentMorph(stack_, "FallbackMorph",
         [path |-> node.path.parts, hash |-> node.hash,
          template |-> node.templates._default], frame_)

TextEvaluate(node, stack_) ==
  StackCall(stack_, [op |-> "appendText", content |-> node.content])

CommentEvaluate(node, stack_) ==
  StackCall(stack_, [op |-> "appendComment", content |-> node.value])

OpenElementEvaluate(node, stack_) ==
  StackCall(stack_, [op |-> "openElement", tag |-> node.tag])

CloseElementEvaluate(node, stack_) == StackCall(stack_, [op |-> "closeElement"])

StaticAttrEvaluate(node, stack_) ==
  IF Truthy(node.namespace)
  THEN StackCall(stack_, [op |-> "setAttributeNS", name |-> node.name,
                          value |-> node.value, namespace |-> node.namespace])
  ELSE StackCall(stack_, [op |-> "setAttribute", name |-> node.name, value |-> node.value])

StatementEvaluate(node, stack_, frame_) ==
  CASE node.type = "block" -> BlockEvaluate(node, stack_, frame_)
    [] node.type = "unknown" -> UnknownEvaluate(node, stack_, frame_)
    [] node.type = "inline" -> InlineEvaluate(node, stack_, frame_)
    [] node.type = "dynamic-prop" -> DynamicPropEvaluate(node, stack_, frame_)
    [] node.type = "dynamic-attr" -> DynamicAttrEvaluate(node, stack_, frame_)
    [] node.type = "component" -> ComponentEvaluate(node, stack_, frame_)
    [] node.type = "text" -> TextEvaluate(node, stack_)
    [] node.type = "comment" -> CommentEvaluate(node, stack_)
    [] node.type = "open-element" -> OpenElementEvaluate(node, stack_)
    [] node.type = "close-element" -> CloseElementEvaluate(node, stack_)
    [] node.type = "static-attr" -> StaticAttrEvaluate(node, stack_)
    [] OTHER -> TypeError

\* stack.appendStatement(statement, frame): the one dispatch entry, which
\* evaluates the statement on the stack
appendStatement(stack_, statement, frame_) ==
  StatementEvaluate(statement,
                    StackCall(stack_, [op |-> "appendStatement", type |-> statement.type]),
                    frame_)

RECURSIVE forEachStatement(_, _, _)
\* a walk over the statements from the last one to the first
RECURSIVE forEachStatement_Mut(_, _, _)
forEachStatement_Mut(statements, stack_, frame_) ==
  IF Len(statements) = 0 THEN stack_
  ELSE Try(appendStatement(stack_, statements[Len(statements)], frame_),
           LAMBDA after :
             forEachStatement_Mut(SubSeq(statements, 1, Len(statements) - 1), after, frame_))

\* this.statements.forEach(statement => stack.appendStatement(statement, frame))
forEachStatement(statements, stack_, frame_) ==
  IF Len(statements) = 0 THEN stack_
  ELSE Try(appendStatement(stack_, statements[1], frame_),
           LAMBDA after : forEachStatement(Tail(statements), after, frame_))

\* Template.evaluateWithStack(stack, frame): the stack after it and the
\* RenderResult it returns (the bounds are left out), or TypeError
evaluateWithStack(template, stack_, frame_, arrs) ==
  Try(forEachStatement(arrs[template.statements], stack_, frame_),
      LAMBDA after : [type |-> "evaluated",
                      stack |-> after,
                      result |-> [type |-> "RenderResult",
                                  morphs |-> after.morphs,
                                  scope |-> frame_.scope,
                                  template |-> template]])

\* Template.evaluate(morph, options): a new ElementStack at the morph's place
TemplateEvaluate(template, frame_, arrs) ==
  evaluateWithStack(template, NewElementStack, frame_, arrs)

\* Template.clone(): the statements array is copied, the rest is shared
TemplateClone(template, arrs) ==
  [template |-> [template EXCEPT !.statements = Len(arrs) + 1],
   arrays |-> Append(arrs, arrs[template.statements])]

----------------------------------------------------------------------------
(* The fallback render node: append and update *)

\* an exception thrown after calls were made on the stack, which keeps them
Thrown(stack_) == [type |-> "TypeError", stack |-> stack_]

Appended(stack_) == [type |-> "appended", stack |-> stack_]

\* SimpleTemplateMorph.append(stack), from its contract: the statements of
\* the template are applied to the stack, in order
SimpleTemplateMorphAppend(stack_, template, frame_, arrs) ==
  forEachStatement(arrs[template.statements], stack_, frame_)

\* if (!template.isEmpty) stack.createContentMorph(SimpleTemplateMorph, ...)
\* .append(stack); stack.closeElement(): reading isEmpty of a null or
\* undefined template throws
FallbackBody(morph, stack_, frame_, tmpls, arrs) ==
  IF IsNullish(morph.template) THEN Thrown(stack_)
  ELSE IF tmpls[morph.template.id].isEmpty
  THEN Appended(StackCall(stack_, [op |-> "closeElement"]))
  ELSE IF IsError(SimpleTemplateMorphAppend(
                    createContentMorph(stack_, "SimpleTemplateMorph",
                                       [template |-> morph.template], frame_),
                    tmpls[morph.template.id], frame_, arrs))
  THEN Thrown(stack_)
  ELSE Appended(StackCall(SimpleTemplateMorphAppend(
                            createContentMorph(stack_, "SimpleTemplateMorph",
                                               [template |-> morph.template], frame_),
                            tmpls[morph.template.id], frame_, arrs),
                          [op |-> "closeElement"]))

\* FallbackMorph.append(stack): the stack after it, or the exception thrown
\* and the stack as the calls before it left it
FallbackMorphAppend(morph, stack_, frame_, tmpls, arrs) ==
  IF IsError(forEachStatement(morph.attrs,
                              StackCall(stack_, [op |-> "openElement", tag |-> morph.tag]),
                              frame_))
  THEN Thrown(StackCall(stack_, [op |-> "openElement", tag |-> morph.tag]))
  ELSE FallbackBody(morph,
                    forEachStatement(morph.attrs,
                                     StackCall(stack_, [op |-> "openElement", tag |-> morph.tag]),
                                     frame_),
                    frame_, tmpls, arrs)

\* FallbackMorph.update() {}
FallbackMorphUpdate(morph) == morph

----------------------------------------------------------------------------
(* prettyPrint.  In a dump a primitive is wrapped as                        *)
(* [type |-> "primitive", v |-> ...]; a dictionary is a function of its     *)
(* keys, so a key assigned twice keeps the last value.                      *)

Primitive(v) == [type |-> "primitive", v |-> v]

\* new PrettyPrint(type, operation, params=null, hash=null, templates=null)
NewPrettyPrint(type, operation, params, hash, templates_) ==
  [type |-> "PrettyPrint", ptype |-> type, operation |-> operation,
   params |-> params, hash |-> hash, templates |-> templates_]

\* dict() filled by out[key] = value for the keys in order
RECURSIVE DictOf(_, _)
DictSet(d, k, v) == [x \in DOMAIN d \cup {k} |-> IF x = k THEN v ELSE d[x]]

DictOf(keys, values) ==
  IF Len(keys) = 0 THEN [k \in {} |-> NullRef]
  ELSE DictSet(DictOf(SubSeq(keys, 1, Len(keys) - 1), SubSeq(values, 1, Len(keys) - 1)),
               keys[Len(keys)], values[Len(keys)])

Dict(keys, values) == [type |-> "dict", entries |-> DictOf(keys, values)]

\* EvaluatedHash.value(): hash[k] = refs[i].value() for the keys in order
EvaluatedHashValue(ref, scope) ==
  DictOf(ref.keys, [i \in 1..Len(ref.values) |-> RefValue(ref.values[i], scope)])

RefPrettyPrint(ref) == Primitive(Join(ref.parts, "."))

RECURSIVE ExprPrettyPrint(_)

ParamsPrettyPrint(params) ==
  [type |-> "list",
   items |-> [i \in 1..Len(params.params) |-> ExprPrettyPrint(params.params[i])]]

HashPrettyPrint(hash) ==
  Dict(hash.keys, [i \in 1..Len(hash.values) |-> ExprPrettyPrint(hash.values[i])])

ExprPrettyPrint(expr) ==
  CASE expr.type = "value" -> Primitive(expr.value)
    [] expr.type = "get" ->
         NewPrettyPrint("expr", "get", [type |-> "list", items |-> <<RefPrettyPrint(expr.ref)>>],
                        NullRef, NullRef)
    [] expr.type = "ref" -> RefPrettyPrint(expr)
    [] expr.type = "helper" ->
         NewPrettyPrint("expr", Join(expr.ref.parts, "."), ParamsPrettyPrint(expr.args.params),
                        HashPrettyPrint(expr.args.hash), NullRef)
    [] expr.type = "concat" ->
         NewPrettyPrint("expr", "concat", ParamsPrettyPrint(expr.parts), NullRef, NullRef)

\* _default && _default.position
PositionOf(ref, tmpls) ==
  IF IsNullish(ref) THEN ref ELSE tmpls[ref.id].position

TemplatesPrettyPrint(templates_, tmpls) ==
  [type |-> "dict",
   entries |-> [default |-> PositionOf(templates_._default, tmpls),
                inverse |-> PositionOf(templates_._inverse, tmpls)]]

List(items) == [type |-> "list", items |-> items]

AppendOperation(trustingMorph) ==
  IF Truthy(trustingMorph) THEN "append-html" ELSE "append-text"

BlockPrettyPrint(node, tmpls) ==
  IF IsNullish(node.args) THEN TypeError
  ELSE NewPrettyPrint("block", "block",
         List(<<NewPrettyPrint("expr", Join(node.path, "."),
                               ParamsPrettyPrint(node.args.params),
                               HashPrettyPrint(node.args.hash), NullRef)>>),
         NullRef, TemplatesPrettyPrint(node.templates, tmpls))

UnknownPrettyPrint(node) ==
  NewPrettyPrint("append", AppendOperation(node.trustingMorph),
    List(<<NewPrettyPrint("expr", "unknown", List(<<RefPrettyPrint(node.ref)>>),
                          NullRef, NullRef)>>),
    NullRef, NullRef)

InlinePrettyPrint(node) ==
  IF IsNullish(node.args) THEN TypeError
  ELSE NewPrettyPrint("append", AppendOperation(node.trustingMorph),
         List(<<NewPrettyPrint("expr", Join(node.path, "."),
                               ParamsPrettyPrint(node.args.params),
                               HashPrettyPrint(node.args.hash), NullRef)>>),
         NullRef, NullRef)

DynamicPropPrettyPrint(node) ==
  NewPrettyPrint("attr", "prop", List(<<Primitive(node.name), ExprPrettyPrint(node.value)>>),
                 NullRef, NullRef)

DynamicAttrPrettyPrint(node) ==
  IF Truthy(node.namespace)
  THEN NewPrettyPrint("attr", "attr", List(<<Primitive(node.name), ExprPrettyPrint(node.value)>>),
                      Dict(<<"namespace">>, <<Primitive(node.namespace)>>), NullRef)
  ELSE NewPrettyPrint("attr", "attr", List(<<Primitive(node.name), ExprPrettyPrint(node.value)>>),
                      NullRef, NullRef)

ComponentPrettyPrint(node, tmpls) ==
  IF IsNullish(node.hash) THEN TypeError
  ELSE NewPrettyPrint("block", "component", List(<<RefPrettyPrint(node.path)>>),
                      HashPrettyPrint(node.hash), TemplatesPrettyPrint(node.templates, tmpls))

TextPrettyPrint(node) ==
  NewPrettyPrint("append", "append-text", List(<<Primitive(node.content)>>), NullRef, NullRef)

CommentPrettyPrint(node) ==
  NewPrettyPrint("append", "append-comment", List(<<Primitive(node.value)>>), NullRef, NullRef)

OpenElementPrettyPrint(node) ==
  NewPrettyPrint("element", "open-element", List(<<Primitive(node.tag)>>), NullRef, NullRef)

CloseElementPrettyPrint ==
  NewPrettyPrint("element", "close-element", NullRef, NullRef, NullRef)

StaticAttrPrettyPrint(node) ==
  IF Truthy(node.namespace)
  THEN NewPrettyPrint("attr", "attr", List(<<Primitive(node.name), Primitive(node.value)>>),
                      Dict(<<"namespace">>, <<Primitive(node.namespace)>>), NullRef)
  ELSE NewPrettyPrint("attr", "attr", List(<<Primitive(node.name), Primitive(node.value)>>),
                      NullRef, NullRef)

StatementPrettyPrint(node, tmpls) ==
  CASE node.type = "block" -> BlockPrettyPrint(node, tmpls)
    [] node.type = "unknown" -> UnknownPrettyPrint(node)
    [] node.type = "inline" -> InlinePrettyPrint(node)
    [] node.type = "dynamic-prop" -> DynamicPropPrettyPrint(node)
    [] node.type = "dynamic-attr" -> DynamicAttrPrettyPrint(node)
    [] node.type = "component" -> ComponentPrettyPrint(node, tmpls)
    [] node.type = "text" -> TextPrettyPrint(node)
    [] node.type = "comment" -> CommentPrettyPrint(node)
    [] node.type = "open-element" -> OpenElementPrettyPrint(node)
    [] node.type = "close-element" -> CloseElementPrettyPrint
    [] node.type = "static-attr" -> StaticAttrPrettyPrint(node)
    [] OTHER -> TypeError

StatementDumps(statements, tmpls) ==
  [i \in 1..Len(statements) |-> StatementPrettyPrint(statements[i], tmpls)]

\* Template.prettyPrint(): the dumps of the statements of every template of
\* the root array; a template with no root throws
TemplatePrettyPrint(template, tmpls, arrs) ==
  IF IsNullish(template.root) THEN TypeError
  ELSE TryAll([j \in 1..template.root.length |->
                 TryAll(StatementDumps(arrs[tmpls[template.root.base + j].statements], tmpls),
                        LAMBDA dumps : [type |-> "list", items |-> dumps])],
              LAMBDA dumps : [type |-> "dump", templates |-> dumps])

----------------------------------------------------------------------------
(* Bounds and inputs *)

MaxStatements == 3

\* the sequences over S of length at most n
RECURSIVE SeqUpTo(_, _)
Longer(shorter, S, n) ==
  shorter \cup {Append(q, x) : q \in {r \in shorter : Len(r) = n - 1}, x \in S}

SeqUpTo(S, n) == IF n = 0 THEN {<<>>} ELSE Longer(SeqUpTo(S, n - 1), S, n)

Lit(v) == [k |-> "lit", v |-> v]
Absent == [k |-> "absent"]
Arr(items) == [k |-> "arr", items |-> items]
Id(n) == [type |-> "num", n |-> n]

GetSexp(path) == [k |-> "arr", tag |-> "get", path |-> path]
HelperSexp(path, params, hash) ==
  [k |-> "arr", tag |-> "helper", path |-> path, params |-> params, hash |-> hash]
ConcatSexp(params) == [k |-> "arr", tag |-> "concat", params |-> params]
\* tagged arrays whose tag is no key of the expression table
BogusSexp == [k |-> "arr", tag |-> "value"]
InheritedSexp == [k |-> "arr", tag |-> "constructor"]

TextSexp == [head |-> "text", content |-> "hi"]
CommentSexp == [head |-> "comment", value |-> "note"]
OpenElementSexp == [head |-> "openElement", tag |-> "div"]
CloseElementSexp == [head |-> "closeElement"]
StaticAttrSexp(ns) ==
  [head |-> "staticAttr", name |-> "class", value |-> Lit("x"), namespace |-> ns]
DynamicAttrSexp(value, ns) ==
  [head |-> "dynamicAttr", name |-> "class", value |-> value, namespace |-> ns]
DynamicPropSexp(value) ==
  [head |-> "dynamicProp", name |-> "checked", value |-> value, namespace |-> JsNull]
BlockSexp(params, hash) ==
  [head |-> "block", path |-> <<"if">>, params |-> params, hash |-> hash,
   templateId |-> Id(0), inverseId |-> NullRef]
InlineSexp(params, hash, trust) ==
  [head |-> "inline", path |-> <<"h">>, params |-> params, hash |-> hash, trust |-> trust]
UnknownSexp(unsafe) == [head |-> "unknown", path |-> <<"a">>, unsafe |-> unsafe]
ComponentSexp(attrs) ==
  [head |-> "component", path |-> "x-foo", attrs |-> attrs,
   templateId |-> Id(0), inverseId |-> NullRef]

\* the well-formed statements the templates of the model are made of
GoodStatements ==
  {TextSexp, CommentSexp, OpenElementSexp, CloseElementSexp,
   StaticAttrSexp(JsNull),
   DynamicAttrSexp(Lit("x"), JsNull),
   DynamicPropSexp(GetSexp(<<"a">>)),
   BlockSexp(Arr(<<GetSexp(<<"a">>)>>), Absent),
   InlineSexp(Absent, Arr(<<Lit("k"), Lit("x")>>), JsFalse),
   UnknownSexp(JsTrue),
   ComponentSexp(Arr(<<Lit("id"), Lit("x"), Lit("title"), GetSexp(<<"a">>)>>))}

\* statements whose tag is no key of the statement table
BadTagStatements ==
  {[head |-> "modifier", path |-> <<"on">>], [head |-> "constructor"]}

\* an ill-tagged expression, bare and nested in a helper and in a concat
BadExpressions ==
  {BogusSexp, InheritedSexp,
   HelperSexp(<<"h">>, Arr(<<Lit("x"), BogusSexp>>), Absent),
   HelperSexp(<<"h">>, Absent, Arr(<<Lit("k"), BogusSexp>>)),
   ConcatSexp(Arr(<<GetSexp(<<"a">>), BogusSexp>>))}

\* every place of a statement that holds an expression, holding an ill-tagged one
BadExpressionStatements ==
  UNION {{DynamicAttrSexp(e, JsNull),
          DynamicPropSexp(e),
          BlockSexp(Arr(<<e>>), Absent),
          BlockSexp(Absent, Arr(<<Lit("k"), e>>)),
          InlineSexp(Arr(<<Lit("x"), e>>), Absent, JsFalse),
          InlineSexp(Absent, Arr(<<Lit("k"), e>>), JsTrue),
          ComponentSexp(Arr(<<Lit("id"), e>>))} : e \in BadExpressions}

NoLocals == [type |-> "array", items |-> <<>>]

TemplateSpec(statements) == [statements |-> statements, locals |-> NoLocals]

\* the sub-template that the block and component statements refer to
ChildSpecs == {TemplateSpec(<<>>), TemplateSpec(<<TextSexp>>)}

\* the ids a block or a component of three templates may hold: none, an
\* earlier template, its own template, a later one
LinkIds == {NullRef, Id(0), Id(1), Id(2)}

LinkSexps ==
  {[head |-> "block", path |-> <<"if">>, params |-> Absent, hash |-> Absent,
    templateId |-> t, inverseId |-> i] : t \in LinkIds, i \in LinkIds}
  \cup {[head |-> "component", path |-> "x-foo", attrs |-> Absent,
          templateId |-> t, inverseId |-> i] : t \in LinkIds, i \in LinkIds}

\* three templates, one of which holds a block or a component
LinkedSpecs ==
  {<<TemplateSpec(<<x>>), TemplateSpec(<<TextSexp>>), TemplateSpec(<<TextSexp>>)>> :
     x \in LinkSexps}
  \cup {<<TemplateSpec(<<TextSexp>>), TemplateSpec(<<x>>), TemplateSpec(<<TextSexp>>)>> :
          x \in LinkSexps}
  \cup {<<TemplateSpec(<<TextSexp>>), TemplateSpec(<<TextSexp>>), TemplateSpec(<<x>>)>> :
          x \in LinkSexps}

\* the arrays handed to Template.fromSpec: a child and a main template of up
\* to MaxStatements statements; an ill-tagged statement or expression in the
\* main template, alone or after a well-formed statement, or in the child;
\* three templates linked by ids
SpecInputs ==
  {<<c, TemplateSpec(m)>> :
     c \in ChildSpecs, m \in SeqUpTo(GoodStatements \cup {[head |-> "modifier", path |-> <<"on">>]},
                                     MaxStatements)}
  \cup {<<TemplateSpec(<<>>), TemplateSpec(pre \o <<b>>)>> :
          pre \in {<<>>, <<TextSexp>>}, b \in BadTagStatements \cup BadExpressionStatements}
  \cup {<<TemplateSpec(<<b>>), TemplateSpec(<<TextSexp>>)>> :
          b \in BadTagStatements \cup BadExpressionStatements}
  \cup LinkedSpecs

\* the frame of the decoding runs: helpers `if` and `h`, nothing for x-foo
DefaultFrame ==
  [components |-> {}, helpers |-> {<<"if">>, <<"h">>}, scope |-> [a |-> "A", b |-> "B"]]

----------------------------------------------------------------------------
(* The decoding run: Template.fromSpec, then evaluate or prettyPrint *)

Idle ==
  /\ builder = NoResult /\ parity = NoResult /\ decodedNode = NoResult /\ builtNode = NoResult
  /\ outDecoded = NoResult /\ outBuilt = NoResult /\ subject = NoResult
  /\ reference = NoResult /\ evals = <<>> /\ lookupKey = ""
  /\ notified = NoResult /\ pulled = NoResult

Init ==
  /\ specs \in SpecInputs
  /\ frame = DefaultFrame
  /\ arrays = << <<>> >>
  /\ templates = <<>>
  /\ origin = <<>>
  /\ heldTemplate = NoResult
  /\ stack = NoResult
  /\ result = NoResult
  /\ dump = NoResult
  /\ pc = "start"
  /\ Idle

\* result = Template.fromSpec(specs)
FromSpecReturns(r) ==
  IF IsError(r)
  THEN /\ result' = TypeError
       /\ pc' = "failed"
       /\ UNCHANGED <<templates, arrays, origin, heldTemplate>>
  ELSE /\ templates' = r.templates
       /\ arrays' = r.arrays
       /\ origin' = [i \in 1..Len(r.templates) |-> "fromSpec"]
       /\ heldTemplate' = r.ret
       /\ result' = r.ret
       /\ pc' = "decoded"

FromSpec ==
  /\ pc = "start"
  /\ FromSpecReturns(TemplateFromSpec(specs, templates, arrays))
  /\ UNCHANGED <<notified, pulled, specs, frame, builder, stack, dump, parity, decodedNode, builtNode,
                 outDecoded, outBuilt, subject, reference, evals, lookupKey>>

\* result = template.evaluate(morph) on a new ElementStack
EvaluateReturns(r) ==
  IF IsError(r)
  THEN /\ result' = TypeError
       /\ stack' = NoResult
  ELSE /\ result' = r.result
       /\ stack' = r.stack

Evaluate ==
  /\ pc = "decoded"
  /\ EvaluateReturns(TemplateEvaluate(templates[heldTemplate.id], frame, arrays))
  /\ pc' = "evaluated"
  /\ UNCHANGED <<notified, pulled, specs, frame, arrays, templates, origin, builder, heldTemplate, dump,
                 parity, decodedNode, builtNode, outDecoded, outBuilt, subject, reference, evals, lookupKey>>

\* dump = template.prettyPrint()
PrettyPrint ==
  /\ pc = "decoded"
  /\ dump' = TemplatePrettyPrint(templates[heldTemplate.id], templates, arrays)
  /\ pc' = "printed"
  /\ UNCHANGED <<notified, pulled, specs, frame, arrays, templates, origin, builder, heldTemplate, stack, result,
                 parity, decodedNode, builtNode, outDecoded, outBuilt, subject, reference, evals, lookupKey>>

Next == FromSpec \/ Evaluate \/ PrettyPrint

Spec == Init /\ [][Next]_vars

----------------------------------------------------------------------------
(* The building run: a TemplateBuilder fed statement by statement, the      *)
(* templates taken from it, their clones, and their evaluation.             *)

MaxBuilt == 2
MaxTemplates == 2

\* the statement methods called on the builder, by the key of `builders`
BuildKeys == {"text", "dynamicAttr", "block", "inline", "unknown", "component"}

\* a template made beforehand, which blocks and components are given as their body
BodyStatements == <<TextBuild("hi")>>

OneParam == ParamsAndHashBuild(ParamsBuild(<<GetBuild("a")>>), HashEmpty)

BuildCall(k) ==
  CASE k = "text" -> [key |-> k, content |-> "hi"]
    [] k = "dynamicAttr" ->
         [key |-> k, name |-> "class", value |-> ValueBuild("x"), namespace |-> JsUndefined]
    [] k = "block" ->
         [key |-> k,
          options |-> [path |-> <<"if">>, args |-> OneParam,
                       templates |-> TemplatesBuild(TemplateRef(1), NullRef)]]
    [] k = "inline" -> [key |-> k, path |-> "h", args |-> OneParam, trust |-> JsFalse]
    [] k = "unknown" -> [key |-> k, path |-> "a", unsafe |-> JsFalse]
    [] k = "component" ->
         [key |-> k, path |-> "x-foo",
          options |-> [default |-> TemplateRef(1), inverse |-> NullRef,
                       hash |-> HashBuild([type |-> "dict", keys |-> <<"id">>,
                                           values |-> <<ValueBuild("x")>>])]]

IdleBuild ==
  /\ specs = <<>> /\ dump = NoResult /\ parity = NoResult /\ decodedNode = NoResult
  /\ builtNode = NoResult /\ outDecoded = NoResult /\ outBuilt = NoResult
  /\ subject = NoResult /\ reference = NoResult /\ evals = <<>> /\ lookupKey = ""
  /\ notified = NoResult /\ pulled = NoResult

\* arrays[2] holds BodyStatements, arrays[3] is the builder's this.statements
InitBuild ==
  /\ frame = DefaultFrame
  /\ arrays = << <<>>, BodyStatements, <<>> >>
  /\ templates = <<TemplateFromStatements(2, << <<>>, BodyStatements, <<>> >>)>>
  /\ origin = <<"fromStatements">>
  /\ builder = [type |-> "TemplateBuilder", statements |-> 3]
  /\ heldTemplate = NoResult
  /\ stack = NoResult
  /\ result = NoResult
  /\ pc = "building"
  /\ IdleBuild

\* the list of statements of the t-th template
StatementsOf(t) == arrays[templates[t].statements]

\* builder[key](...args): this.statements.push(builders[key](...args))
BuilderStatement(k) ==
  /\ Len(arrays[builder.statements]) < MaxBuilt
  /\ arrays' = [arrays EXCEPT ![builder.statements] = Append(@, builders(BuildCall(k)))]
  /\ UNCHANGED <<notified, pulled, specs, frame, templates, origin, builder, heldTemplate, stack, result, dump,
                 pc, parity, decodedNode, builtNode, outDecoded, outBuilt, subject, reference,
                 evals, lookupKey>>

\* heldTemplate = builder.template()
BuilderTemplate ==
  /\ Len(templates) < 1 + MaxTemplates
  /\ templates' = Append(templates, TemplateFromStatements(builder.statements, arrays))
  /\ origin' = Append(origin, "builder")
  /\ heldTemplate' = TemplateRef(Len(templates) + 1)
  /\ UNCHANGED <<notified, pulled, specs, frame, arrays, builder, stack, result, dump, pc, parity, decodedNode,
                 builtNode, outDecoded, outBuilt, subject, reference, evals, lookupKey>>

CloneReturns(r) ==
  /\ templates' = Append(templates, r.template)
  /\ arrays' = r.arrays

\* heldTemplate = heldTemplate.clone()
Clone ==
  /\ heldTemplate # NoResult
  /\ Len(templates) < 1 + MaxTemplates
  /\ CloneReturns(TemplateClone(templates[heldTemplate.id], arrays))
  /\ origin' = Append(origin, "clone")
  /\ heldTemplate' = TemplateRef(Len(templates) + 1)
  /\ UNCHANGED <<notified, pulled, specs, frame, builder, stack, result, dump, pc, parity, decodedNode,
                 builtNode, outDecoded, outBuilt, subject, reference, evals, lookupKey>>

\* clone.statements.push(statement) on a template that clone() returned
PushOnClone(k) ==
  /\ heldTemplate # NoResult
  /\ origin[heldTemplate.id] = "clone"
  /\ Len(StatementsOf(heldTemplate.id)) < MaxBuilt
  /\ arrays' = [arrays EXCEPT ![templates[heldTemplate.id].statements] =
                                 Append(@, builders(BuildCall(k)))]
  /\ UNCHANGED <<notified, pulled, specs, frame, templates, origin, builder, heldTemplate, stack, result, dump,
                 pc, parity, decodedNode, builtNode, outDecoded, outBuilt, subject, reference,
                 evals, lookupKey>>

\* result = heldTemplate.evaluate(morph) on a new ElementStack
EvaluateBuilt ==
  /\ heldTemplate # NoResult
  /\ EvaluateReturns(TemplateEvaluate(templates[heldTemplate.id], frame, arrays))
  /\ UNCHANGED <<notified, pulled, specs, frame, arrays, templates, origin, builder, heldTemplate, dump, pc,
                 parity, decodedNode, builtNode, outDecoded, outBuilt, subject, reference,
                 evals, lookupKey>>

NextBuild ==
  \/ \E k \in BuildKeys : BuilderStatement(k)
  \/ BuilderTemplate
  \/ Clone
  \/ \E k \in BuildKeys : PushOnClone(k)
  \/ EvaluateBuilt

SpecBuild == InitBuild /\ [][NextBuild]_vars

----------------------------------------------------------------------------
(* Properties of the building run *)

EligibleTypes == {"block", "inline", "unknown", "component"}

\* C3: a template taken from a TemplateBuilder has, at the moment it is
\* built, its first statement marked frontBoundary when that statement is a
\* block, inline, unknown or component, and its last statement marked
\* backBoundary when that one is, as a template decoded from the same
\* statements has.
C3_BuildMarks ==
  [][(Len(templates') = Len(templates) + 1
        /\ origin'[Len(templates')] = "builder"
        /\ Len(arrays'[templates'[Len(templates')].statements]) > 0) =>
       /\ (arrays'[templates'[Len(templates')].statements][1].type \in EligibleTypes
             => arrays'[templates'[Len(templates')].statements][1].frontBoundary)
       /\ (arrays'[templates'[Len(templates')].statements]
              [Len(arrays'[templates'[Len(templates')].statements])].type \in EligibleTypes
             => arrays'[templates'[Len(templates')].statements]
                  [Len(arrays'[templates'[Len(templates')].statements])].backBoundary)]_vars

\* C9: once a Template exists, no later step changes its sequence of
\* statements or its locals: no statement call on the builder it came from,
\* no evaluation, no clone() followed by a push on the clone's list.
C9_StatementsKept ==
  [][\A t \in 1..Len(templates) :
       /\ arrays'[templates'[t].statements] = arrays[templates[t].statements]
       /\ templates'[t].locals = templates[t].locals]_vars

----------------------------------------------------------------------------
(* The parity run: one statement, decoded from its wire form and built by  *)
(* the builder function of its kind, each evaluated on a new ElementStack.  *)

\* the statements of the run, by name
ParityCases ==
  {"text", "comment", "openElement", "closeElement", "staticAttr", "staticAttrNs",
   "dynamicAttr", "dynamicAttrNs", "dynamicProp", "unknown", "unknownUnsafe",
   "inline", "inlineTrust", "inlineNoArgs", "block", "component", "componentNoHash"}

ComponentCases == {"component", "componentNoHash"}

\* the wire form of a case
ParitySexp(c) ==
  CASE c = "text" -> TextSexp
    [] c = "comment" -> CommentSexp
    [] c = "openElement" -> OpenElementSexp
    [] c = "closeElement" -> CloseElementSexp
    [] c = "staticAttr" -> StaticAttrSexp(JsNull)
    [] c = "staticAttrNs" -> StaticAttrSexp("svg")
    [] c = "dynamicAttr" -> DynamicAttrSexp(GetSexp(<<"a">>), JsNull)
    [] c = "dynamicAttrNs" -> DynamicAttrSexp(GetSexp(<<"a">>), "svg")
    [] c = "dynamicProp" -> DynamicPropSexp(GetSexp(<<"a">>))
    [] c = "unknown" -> UnknownSexp(JsFalse)
    [] c = "unknownUnsafe" -> UnknownSexp(JsTrue)
    [] c = "inline" -> InlineSexp(Arr(<<GetSexp(<<"a">>)>>), Arr(<<Lit("k"), Lit("x")>>), JsFalse)
    [] c = "inlineTrust" -> InlineSexp(Arr(<<GetSexp(<<"a">>)>>), Absent, JsTrue)
    [] c = "inlineNoArgs" -> InlineSexp(Absent, Absent, JsFalse)
    [] c = "block" -> BlockSexp(Arr(<<GetSexp(<<"a">>)>>), Absent)
    [] c = "component" -> ComponentSexp(Arr(<<Lit("id"), Lit("x"), Lit("title"), GetSexp(<<"a">>)>>))
    [] c = "componentNoHash" -> ComponentSexp(Absent)

Dictionary(keys, values) == [type |-> "dict", keys |-> keys, values |-> values]

\* the call of `builders` that is given the same input; an argument left out
\* of the call is undefined
ParityCall(c) ==
  CASE c = "text" -> [key |-> "text", content |-> "hi"]
    [] c = "comment" -> [key |-> "comment", value |-> "note"]
    [] c = "openElement" -> [key |-> "openElement", tag |-> "div"]
    [] c = "closeElement" -> [key |-> "closeElement"]
    [] c = "staticAttr" ->
         [key |-> "staticAttr", name |-> "class", value |-> "x", namespace |-> JsUndefined]
    [] c = "staticAttrNs" ->
         [key |-> "staticAttr", name |-> "class", value |-> "x", namespace |-> "svg"]
    [] c = "dynamicAttr" ->
         [key |-> "dynamicAttr", name |-> "class", value |-> GetBuild("a"),
          namespace |-> JsUndefined]
    [] c = "dynamicAttrNs" ->
         [key |-> "dynamicAttr", name |-> "class", value |-> GetBuild("a"), namespace |-> "svg"]
    [] c = "dynamicProp" -> [key |-> "dynamicProp", name |-> "checked", value |-> GetBuild("a")]
    [] c = "unknown" -> [key |-> "unknown", path |-> "a", unsafe |-> JsFalse]
    [] c = "unknownUnsafe" -> [key |-> "unknown", path |-> "a", unsafe |-> JsTrue]
    [] c = "inline" ->
         [key |-> "inline", path |-> "h",
          args |-> ParamsAndHashBuild(ParamsBuild(<<GetBuild("a")>>),
                                      HashBuild(Dictionary(<<"k">>, <<ValueBuild("x")>>))),
          trust |-> JsFalse]
    [] c = "inlineTrust" ->
         [key |-> "inline", path |-> "h",
          args |-> ParamsAndHashBuild(ParamsBuild(<<GetBuild("a")>>), HashBuild(UndefRef)),
          trust |-> JsTrue]
    [] c = "inlineNoArgs" -> [key |-> "inline", path |-> "h", args |-> UndefRef, trust |-> JsFalse]
    [] c = "block" ->
         [key |-> "block",
          options |-> [path |-> <<"if">>,
                       args |-> ParamsAndHashBuild(ParamsBuild(<<GetBuild("a")>>),
                                                   HashBuild(UndefRef)),
                       templates |-> TemplatesBuild(TemplateRef(1), NullRef)]]
    [] c = "component" ->
         [key |-> "component", path |-> "x-foo",
          options |-> [default |-> TemplateRef(1), inverse |-> NullRef,
                       hash |-> HashBuild(Dictionary(<<"id", "title">>,
                                                     <<ValueBuild("x"), GetBuild("a")>>))]]
    [] c = "componentNoHash" ->
         [key |-> "component", path |-> "x-foo",
          options |-> [default |-> TemplateRef(1), inverse |-> NullRef, hash |-> UndefRef]]

\* a frame for each answer to: is a component definition registered for
\* x-foo, is a helper registered for x-foo, is a helper registered for a
ParityFrames ==
  {[components |-> c, helpers |-> {<<"if">>, <<"h">>} \cup h, scope |-> [a |-> "A", b |-> "B"]] :
     c \in {{}, {<<"x-foo">>}}, h \in SUBSET {<<"x-foo">>, <<"a">>}}

IdleParity ==
  /\ specs = <<>> /\ builder = NoResult /\ heldTemplate = NoResult /\ stack = NoResult
  /\ result = NoResult /\ dump = NoResult /\ subject = NoResult /\ reference = NoResult
  /\ evals = <<>> /\ lookupKey = ""
  /\ notified = NoResult /\ pulled = NoResult

InitParity ==
  /\ parity \in ParityCases
  /\ frame \in ParityFrames
  /\ arrays = << <<>>, BodyStatements >>
  /\ templates = <<TemplateFromStatements(2, << <<>>, BodyStatements >>)>>
  /\ origin = <<"fromStatements">>
  /\ decodedNode = NoResult
  /\ builtNode = NoResult
  /\ outDecoded = NoResult
  /\ outBuilt = NoResult
  /\ pc = "parity"
  /\ IdleParity

\* decodedNode = StatementNodes[tag].fromSpec(sexp, [template])
ParityDecode ==
  /\ decodedNode = NoResult
  /\ decodedNode' = StatementFromSpec(ParitySexp(parity), <<TemplateRef(1)>>)
  /\ UNCHANGED <<notified, pulled, specs, frame, arrays, templates, origin, builder, heldTemplate, stack, result,
                 dump, pc, parity, builtNode, outDecoded, outBuilt, subject, reference, evals,
                 lookupKey>>

\* builtNode = builders[key](...args)
ParityBuild ==
  /\ builtNode = NoResult
  /\ builtNode' = builders(ParityCall(parity))
  /\ UNCHANGED <<notified, pulled, specs, frame, arrays, templates, origin, builder, heldTemplate, stack, result,
                 dump, pc, parity, decodedNode, outDecoded, outBuilt, subject, reference, evals,
                 lookupKey>>

\* stack.appendStatement(decodedNode, frame) on a new stack
ParityEvaluateDecoded ==
  /\ decodedNode # NoResult
  /\ outDecoded = NoResult
  /\ outDecoded' = appendStatement(NewElementStack, decodedNode, frame)
  /\ UNCHANGED <<notified, pulled, specs, frame, arrays, templates, origin, builder, heldTemplate, stack, result,
                 dump, pc, parity, decodedNode, builtNode, outBuilt, subject, reference, evals,
                 lookupKey>>

\* stack.appendStatement(builtNode, frame) on a new stack
ParityEvaluateBuilt ==
  /\ builtNode # NoResult
  /\ outBuilt = NoResult
  /\ outBuilt' = appendStatement(NewElementStack, builtNode, frame)
  /\ UNCHANGED <<notified, pulled, specs, frame, arrays, templates, origin, builder, heldTemplate, stack, result,
                 dump, pc, parity, decodedNode, builtNode, outDecoded, subject, reference, evals,
                 lookupKey>>

NextParity == ParityDecode \/ ParityBuild \/ ParityEvaluateDecoded \/ ParityEvaluateBuilt

SpecParity == InitParity /\ [][NextParity]_vars

----------------------------------------------------------------------------
(* Properties of the parity run *)

\* the render node that the resolution order asks for
ResolvedKind ==
  IF <<"x-foo">> \in frame.components THEN "ComponentMorph"
  ELSE IF <<"x-foo">> \in frame.helpers THEN "BlockHelperMorph"
  ELSE "FallbackMorph"

ResolvedRight(out) ==
  /\ ~IsError(out)
  /\ Len(out.morphs) = 1
  /\ out.morphs[1].type = ResolvedKind
  /\ out.morphs[1].type = "FallbackMorph" => out.morphs[1].tag = "x-foo"

\* C1: whether or not a component definition and a helper are registered
\* for the path, Component.evaluate creates exactly one render node: a
\* ComponentMorph when a definition exists, otherwise a BlockHelperMorph
\* when a helper exists, otherwise a FallbackMorph whose tag is the first
\* segment of the path.
C1_ComponentResolution ==
  parity \in ComponentCases =>
    /\ outDecoded # NoResult => ResolvedRight(outDecoded)
    /\ outBuilt # NoResult => ResolvedRight(outBuilt)

UnknownCases == {"unknown", "unknownUnsafe"}

\* the content an unknown statement on the path a is to be given: the
\* invocation of the helper a with no params and no hash when the frame has
\* that helper, the scope lookup of a otherwise
UnknownRight(out) ==
  /\ ~IsError(out)
  /\ Len(out.morphs) = 1
  /\ out.morphs[1].type = "InsertionMorph"
  /\ out.morphs[1].options.trustingMorph = (IF parity = "unknownUnsafe" THEN JsTrue ELSE JsFalse)
  /\ IF <<"a">> \in frame.helpers
     THEN /\ out.morphs[1].options.content.type = "HelperInvocationReference"
          /\ out.morphs[1].options.content.helper.helper = [type |-> "helper", path |-> <<"a">>]
          /\ out.morphs[1].options.content.args.type = "EvaluatedParamsAndHash"
          /\ out.morphs[1].options.content.args.paramsRef.references = <<>>
          /\ out.morphs[1].options.content.args.hashRef.keys = <<>>
          /\ out.morphs[1].options.content.args.hashRef.values = <<>>
     ELSE /\ out.morphs[1].options.content.type = "PathReference"
          /\ out.morphs[1].options.content.parts = <<"a">>

\* C13: Unknown.evaluate asks the frame for a helper first: with a helper
\* registered for the path the content is the invocation of that helper with
\* empty params and empty hash, and no scope lookup is made; otherwise the
\* content is the scope lookup of the path.  Either way exactly one content
\* render node is created, trusting exactly when the unsafe flag was truthy.
C13_UnknownResolution ==
  parity \in UnknownCases =>
    /\ outDecoded # NoResult => UnknownRight(outDecoded)
    /\ outBuilt # NoResult => UnknownRight(outBuilt)

\* an unsafe unknown statement evaluated on a frame that has the helper a,
\* where the scope has a value for a too
C13_Witness ==
  /\ parity = "unknownUnsafe"
  /\ <<"a">> \in frame.helpers
  /\ frame.scope.a = "A"
  /\ outDecoded # NoResult
  /\ outDecoded.morphs[1].options.content.type = "HelperInvocationReference"
  /\ outDecoded.morphs[1].options.trustingMorph = JsTrue

\* C5: for every statement kind, the node that build makes of an input,
\* evaluated on a stack and frame, makes the calls and the render node that
\* the node decoded from the same input makes.
C5_DecodeBuildParity ==
  (outDecoded # NoResult /\ outBuilt # NoResult) => outBuilt = outDecoded

----------------------------------------------------------------------------
(* The hash run: a Hash decoded from flat pairs, evaluated, and looked up.  *)

MaxKeys == 3

HashKeys == {"a", "b", "c"}

\* the flat pairs of a key list: the i-th value is the number i
RECURSIVE PairsOf(_, _)
PairsOf(keys, i) ==
  IF i > Len(keys) THEN <<>>
  ELSE <<Lit(keys[i]), Lit(CASE i = 1 -> "#1" [] i = 2 -> "#2" [] i = 3 -> "#3" [] OTHER -> "#4")>>
       \o PairsOf(keys, i + 1)

IdleHash ==
  /\ specs = <<>> /\ arrays = << <<>> >> /\ templates = <<>> /\ origin = <<>>
  /\ builder = NoResult /\ heldTemplate = NoResult /\ stack = NoResult /\ dump = NoResult
  /\ parity = NoResult /\ decodedNode = NoResult /\ builtNode = NoResult
  /\ outDecoded = NoResult /\ outBuilt = NoResult
  /\ notified = NoResult /\ pulled = NoResult

InitHash ==
  /\ subject \in {HashFromSpec(Arr(PairsOf(keys, 1))) : keys \in SeqUpTo(HashKeys, MaxKeys)}
  /\ frame = DefaultFrame
  /\ reference = NoResult
  /\ evals = <<>>
  /\ lookupKey = ""
  /\ result = NoResult
  /\ pc = "hash"
  /\ IdleHash

\* reference = subject.evaluate(frame)
EvaluateHash ==
  /\ pc = "hash"
  /\ reference' = HashEvaluate(subject, frame)
  /\ evals' = evals \o Evaluations(subject)
  /\ pc' = "evaluated"
  /\ UNCHANGED <<notified, pulled, specs, frame, arrays, templates, origin, builder, heldTemplate, stack, result,
                 dump, parity, decodedNode, builtNode, outDecoded, outBuilt, subject, lookupKey>>

\* result = reference.at(key)
At(key) ==
  /\ pc = "evaluated"
  /\ lookupKey' = key
  /\ result' = EvaluatedHashAt(reference, key)
  /\ pc' = "looked"
  /\ UNCHANGED <<notified, pulled, specs, frame, arrays, templates, origin, builder, heldTemplate, stack, dump,
                 parity, decodedNode, builtNode, outDecoded, outBuilt, subject, reference, evals>>

\* pulled = reference.value()
HashValue ==
  /\ pc \in {"evaluated", "looked"}
  /\ pulled' = [type |-> "dict", entries |-> EvaluatedHashValue(reference, frame.scope)]
  /\ UNCHANGED <<notified, specs, frame, arrays, templates, origin, builder, heldTemplate, stack,
                 result, dump, pc, parity, decodedNode, builtNode, outDecoded, outBuilt, subject,
                 reference, evals, lookupKey>>

NextHash == EvaluateHash \/ (\E key \in HashKeys \cup {"d"} : At(key)) \/ HashValue

SpecHash == InitHash /\ [][NextHash]_vars

\* the places of a key in the key list of the hash
PlacesOf(key) == {i \in 1..Len(subject.keys) : subject.keys[i] = key}

FirstPlace(key) == CHOOSE i \in PlacesOf(key) : \A j \in PlacesOf(key) : i <= j

\* C6: at(k) returns the value reference at the smallest index whose key is
\* k, and null when k is not among the keys, duplicates allowed.
C6_FirstMatch ==
  pc = "looked" =>
    IF PlacesOf(lookupKey) = {} THEN result = NullRef
    ELSE /\ result = reference.values[FirstPlace(lookupKey)]
         /\ result = ExprEvaluate(subject.values[FirstPlace(lookupKey)], frame)

\* a key held twice after another key: the lookup gives the second value,
\* not the third
C6_Witness ==
  /\ pc = "looked"
  /\ subject.keys = <<"b", "a", "a">>
  /\ lookupKey = "a"
  /\ result = ConstReference("#2")

\* the lookup and the dictionary of the same evaluated hash, both taken
Both == pc = "looked" /\ pulled # NoResult

\* C17: at and value() agree for every key list, duplicates included: for
\* a key among the keys, at(k).value() is value()[k]; the keys absent from
\* value() are exactly the keys for which at returns null.
C17_AtValueAgree ==
  Both =>
    IF result.type = "null" THEN lookupKey \notin DOMAIN pulled.entries
    ELSE /\ lookupKey \in DOMAIN pulled.entries
         /\ RefValue(result, frame.scope) = pulled.entries[lookupKey]

\* C17, for the keys that are not repeated: there the two agree
AgreeOnSingleKeys ==
  (Both /\ Cardinality(PlacesOf(lookupKey)) <= 1) =>
    IF result.type = "null" THEN lookupKey \notin DOMAIN pulled.entries
    ELSE /\ lookupKey \in DOMAIN pulled.entries
         /\ RefValue(result, frame.scope) = pulled.entries[lookupKey]

----------------------------------------------------------------------------
(* The concat run: a Concat expression evaluated once, its reference pulled *)
(* while the values in the scope change.                                    *)

MaxParts == 3

ConcatParts == {Lit("y"), Lit("#1"), GetSexp(<<"a">>), GetSexp(<<"b">>)}

ScopeValues == {"A", "B", "z", "#2", JsNull}

Pulled(v) == [type |-> "pulled", value |-> v]

IdleConcat ==
  /\ specs = <<>> /\ arrays = << <<>> >> /\ templates = <<>> /\ origin = <<>>
  /\ builder = NoResult /\ heldTemplate = NoResult /\ stack = NoResult /\ dump = NoResult
  /\ parity = NoResult /\ decodedNode = NoResult /\ builtNode = NoResult
  /\ outDecoded = NoResult /\ outBuilt = NoResult /\ lookupKey = ""
  /\ notified = NoResult /\ pulled = NoResult

InitConcat ==
  /\ subject \in {ConcatFromSpec(ConcatSexp(Arr(parts))) :
                     parts \in SeqUpTo(ConcatParts, MaxParts) \ {<<>>}}
  /\ frame = DefaultFrame
  /\ reference = NoResult
  /\ evals = <<>>
  /\ result = NoResult
  /\ pc = "concat"
  /\ IdleConcat

\* reference = subject.evaluate(frame)
EvaluateConcat ==
  /\ reference = NoResult
  /\ reference' = ConcatEvaluate(subject, frame)
  /\ evals' = evals \o Evaluations(subject)
  /\ UNCHANGED <<notified, pulled, specs, frame, arrays, templates, origin, builder, heldTemplate, stack, result,
                 dump, pc, parity, decodedNode, builtNode, outDecoded, outBuilt, subject,
                 lookupKey>>

\* the value under a name of the scope changes; what was pulled is out of date
SetValue(name, v) ==
  /\ frame.scope[name] # v
  /\ frame' = [frame EXCEPT !.scope[name] = v]
  /\ result' = NoResult
  /\ UNCHANGED <<notified, pulled, specs, arrays, templates, origin, builder, heldTemplate, stack, dump, pc,
                 parity, decodedNode, builtNode, outDecoded, outBuilt, subject, reference, evals,
                 lookupKey>>

\* result = reference.value()
Pull ==
  /\ reference # NoResult
  /\ result' = Pulled(RefValue(reference, frame.scope))
  /\ UNCHANGED <<notified, pulled, specs, frame, arrays, templates, origin, builder, heldTemplate, stack, dump,
                 pc, parity, decodedNode, builtNode, outDecoded, outBuilt, subject, reference,
                 evals, lookupKey>>

NextConcat ==
  \/ EvaluateConcat
  \/ \E name \in {"a", "b"}, v \in ScopeValues : SetValue(name, v)
  \/ Pull

SpecConcat == InitConcat /\ [][NextConcat]_vars

\* the text a value gives to a concatenation: a string is itself, a number
\* its digits, and null nothing
TextOf(v) ==
  CASE v = JsNull -> ""
    [] v = "#1" -> "1"
    [] v = "#2" -> "2"
    [] OTHER -> v

\* the value a part has now
CurrentValue(part) ==
  IF part.type = "value" THEN part.value ELSE frame.scope[part.ref.parts[1]]

RECURSIVE CurrentText(_)
CurrentText(parts) ==
  IF Len(parts) = 0 THEN ""
  ELSE TextOf(CurrentValue(parts[1])) \o CurrentText(Tail(parts))

\* the expression whose evaluate method a part's evaluation ends in
LeafOf(part) == IF part.type = "get" THEN part.ref ELSE part

\* C7: whatever changes the values of the parts have gone through, pulling
\* the reference made by Concat.evaluate gives the in-order concatenation of
\* the values the parts have now; every part is evaluated against the frame
\* once, when Concat.evaluate runs, and never again after a change.
C7_ConcatCurrent ==
  /\ result.type = "pulled" => result.value = CurrentText(subject.parts.params)
  /\ reference = NoResult => evals = <<>>
  /\ reference # NoResult =>
       /\ Len(evals) = Len(subject.parts.params)
       /\ \A i \in 1..Len(evals) :
            /\ evals[i].type = LeafOf(subject.parts.params[i]).type
            /\ evals[i] = LeafOf(subject.parts.params[i])

\* two parts, the first read from the scope, where its value has changed to
\* "z": the pull gives "zy"
C7_Witness ==
  /\ result.type = "pulled"
  /\ Len(subject.parts.params) = 2
  /\ subject.parts.params[1].type = "get"
  /\ subject.parts.params[2].type = "value"
  /\ frame.scope.a = "z"
  /\ result.value = "zy"
  /\ Len(evals) = 2

----------------------------------------------------------------------------
(* Properties of the decoding run *)

\* the statements of the j-th decoded template
DecodedStatements(j) == arrays[templates[j].statements]

Decoded == pc \in {"decoded", "evaluated", "printed"}

EligibleTags == {"block", "inline", "unknown", "component"}

\* C2: in every template decoded by Template.fromSpec the statement at index
\* i carries frontBoundary exactly when it is the first one and its tag is
\* block, inline, unknown or component, and backBoundary exactly when it is
\* the last one and its tag is one of those four; so no statement of another
\* tag is marked, and a single eligible statement carries both marks.
C2_BoundaryMarks ==
  Decoded =>
    \A j \in 1..Len(specs) :
      /\ Len(DecodedStatements(j)) = Len(specs[j].statements)
      /\ \A i \in 1..Len(specs[j].statements) :
           /\ DecodedStatements(j)[i].frontBoundary
                <=> (i = 1 /\ specs[j].statements[i].head \in EligibleTags)
           /\ DecodedStatements(j)[i].backBoundary
                <=> (i = Len(specs[j].statements) /\ specs[j].statements[i].head \in EligibleTags)

\* a decoded template of three eligible statements: the first carries the
\* front mark only, the last the back mark only, the middle one none
C2_Witness ==
  /\ pc = "decoded"
  /\ Len(specs[2].statements) = 3
  /\ \A i \in 1..3 : specs[2].statements[i].head \in EligibleTags
  /\ DecodedStatements(2)[1].frontBoundary /\ ~DecodedStatements(2)[1].backBoundary
  /\ ~DecodedStatements(2)[2].frontBoundary /\ ~DecodedStatements(2)[2].backBoundary
  /\ ~DecodedStatements(2)[3].frontBoundary /\ DecodedStatements(2)[3].backBoundary

\* C4: a template decoded from a statements array of length zero has isEmpty
\* true and one decoded from a non-empty array has isEmpty false; evaluating
\* the empty one makes no call on the element stack and gives a result whose
\* list of render nodes is empty.
C4_EmptyTemplate ==
  /\ Decoded =>
       \A j \in 1..Len(specs) : templates[j].isEmpty <=> (Len(specs[j].statements) = 0)
  /\ (pc = "evaluated" /\ Len(specs[Len(specs)].statements) = 0) =>
       /\ result.type = "RenderResult"
       /\ stack.calls = <<>>
       /\ stack.morphs = <<>>
       /\ result.morphs = <<>>

\* the empty main template, evaluated, beside a non-empty sub-template
C4_Witness ==
  /\ pc = "evaluated"
  /\ Len(specs[2].statements) = 0
  /\ Len(specs[1].statements) > 0
  /\ templates[2].isEmpty
  /\ ~templates[1].isEmpty
  /\ result.type = "RenderResult"

\* a statement without its boundary marks
Unmarked(node) == [node EXCEPT !.frontBoundary = FALSE, !.backBoundary = FALSE]

\* two statements that differ in variant or, within a variant, in any field
SemanticallyDistinct(a, b) ==
  IF a.type # b.type THEN TRUE ELSE Unmarked(a) # Unmarked(b)

\* C8: prettyPrint is injective on semantically distinct statements: two
\* statements of a template that differ in variant, trust flag, name,
\* namespace, path or hash contents never have equal dumps.
C8_DumpsDistinct ==
  (pc = "printed" /\ ~IsError(dump)) =>
    \A i, j \in 1..Len(DecodedStatements(Len(specs))) :
      SemanticallyDistinct(DecodedStatements(Len(specs))[i], DecodedStatements(Len(specs))[j])
        => dump.templates[Len(specs)].items[i] # dump.templates[Len(specs)].items[j]

ExpressionTags == {"get", "helper", "concat"}

StatementTags ==
  {"block", "inline", "unknown", "dynamicAttr", "dynamicProp", "component",
   "text", "comment", "openElement", "closeElement", "staticAttr"}

\* a wire expression that holds, at any depth, a tagged array of a tag
\* outside the expression table
RECURSIVE IllTagged(_)
IllTaggedParams(field) ==
  field.k = "arr" /\ \E i \in 1..Len(field.items) : IllTagged(field.items[i])

IllTaggedPairs(field) ==
  field.k = "arr" /\ \E i \in 1..Len(field.items) : i % 2 = 0 /\ IllTagged(field.items[i])

IllTagged(e) ==
  /\ e.k = "arr"
  /\ \/ e.tag \notin ExpressionTags
     \/ e.tag = "helper" /\ (IllTaggedParams(e.params) \/ IllTaggedPairs(e.hash))
     \/ e.tag = "concat" /\ IllTaggedParams(e.params)

\* a wire statement of a tag outside the statement table, or holding an
\* ill-tagged expression
IllTaggedStatement(st) ==
  \/ st.head \notin StatementTags
  \/ st.head \in {"dynamicAttr", "dynamicProp"} /\ IllTagged(st.value)
  \/ st.head \in {"block", "inline"} /\ (IllTaggedParams(st.params) \/ IllTaggedPairs(st.hash))
  \/ st.head = "component" /\ IllTaggedPairs(st.attrs)

IllTaggedSpecs ==
  \E j \in 1..Len(specs) : \E i \in 1..Len(specs[j].statements) :
    IllTaggedStatement(specs[j].statements[i])

\* C10: whenever a statement of the spec array has a tag outside the
\* statement table, or a tagged-array expression has a tag outside the
\* expression table, Template.fromSpec throws and no Template comes of it.
C10_DecodeError ==
  (IllTaggedSpecs /\ pc # "start") =>
    /\ pc = "failed"
    /\ IsError(result)
    /\ templates = <<>>
    /\ heldTemplate = NoResult

\* decoding has failed on an ill-tagged expression nested in a helper
\* expression of the second statement, every statement tag being known
C10_Witness ==
  /\ pc = "failed"
  /\ IsError(result)
  /\ \A j \in 1..Len(specs) : \A i \in 1..Len(specs[j].statements) :
       specs[j].statements[i].head \in StatementTags
  /\ Len(specs[2].statements) = 2
  /\ specs[2].statements[2].head = "dynamicProp"
  /\ specs[2].statements[2].value.k = "arr"
  /\ specs[2].statements[2].value.tag = "helper"
  /\ IllTaggedParams(specs[2].statements[2].value.params)


\* the statement kinds handed to appendStatement, in call order
IsAppendStatement(call) == call.op = "appendStatement"

AppendedTypes(calls) ==
  [i \in 1..Len(SelectSeq(calls, IsAppendStatement)) |->
     SelectSeq(calls, IsAppendStatement)[i].type]

\* the statements that create a render node when evaluated
MorphTypes == {"block", "inline", "unknown", "dynamic-attr", "dynamic-prop", "component"}

IsMorphStatement(node) == node.type \in MorphTypes

ReferenceTypes ==
  {"ConstReference", "PathReference", "HelperInvocationReference", "ConcatReference"}

\* the k-th statement of the evaluated template that creates a render node
MorphStatement(k) == SelectSeq(DecodedStatements(Len(specs)), IsMorphStatement)[k]

\* C12: the render node that a dynamic-attr or a dynamic-prop statement
\* creates has, as its value option, the reference that the statement's
\* value expression evaluates to against the frame, not the expression.
C12_ValueIsReference ==
  pc = "evaluated" =>
    \A k \in 1..Len(stack.morphs) :
      stack.morphs[k].type \in {"AttrMorph", "SetPropertyMorph"} =>
        /\ stack.morphs[k].options.value.type \in ReferenceTypes
        /\ stack.morphs[k].options.value = ExprEvaluate(MorphStatement(k).value, frame)


----------------------------------------------------------------------------
(* The arguments run: a helper expression evaluated once; the values in the *)
(* scope change, each change pushing an invalidation from the references    *)
(* that read it, and the arguments are pulled.                              *)

MaxArgs == 2

ArgParts == {Lit("y"), GetSexp(<<"a">>), GetSexp(<<"b">>)}

ArgKeys == <<"k1", "k2", "k3">>

\* the flat pairs that give the i-th key of ArgKeys the i-th expression
RECURSIVE ArgPairs(_, _)
ArgPairs(exprs, i) ==
  IF i > Len(exprs) THEN <<>> ELSE <<Lit(ArgKeys[i]), exprs[i]>> \o ArgPairs(exprs, i + 1)

\* EvaluatedParams.value()
EvaluatedParamsValue(ref, scope) ==
  [i \in 1..Len(ref.references) |-> RefValue(ref.references[i], scope)]

\* EvaluatedParamsAndHash.value()
EvaluatedParamsAndHashValue(ref, scope) ==
  [type |-> "value",
   params |-> EvaluatedParamsValue(ref.paramsRef, scope),
   hash |-> EvaluatedHashValue(ref.hashRef, scope)]

SourcedTypes ==
  {"EvaluatedParams", "EvaluatedHash", "EvaluatedParamsAndHash", "HelperInvocationReference",
   "ConcatReference"}

\* an invalidation pushed by the reference src reaches the reference ref:
\* src is one of the sources of ref, or reaches one of them
RECURSIVE Reaches(_, _)
Reaches(ref, src) ==
  /\ ref.type \in SourcedTypes
  /\ \E i \in 1..Len(ref.sources) :
       \/ ref.sources[i].type = src.type /\ ref.sources[i] = src
       \/ Reaches(ref.sources[i], src)

IdleArgs ==
  /\ specs = <<>> /\ arrays = << <<>> >> /\ templates = <<>> /\ origin = <<>>
  /\ builder = NoResult /\ heldTemplate = NoResult /\ stack = NoResult /\ dump = NoResult
  /\ parity = NoResult /\ decodedNode = NoResult /\ builtNode = NoResult
  /\ outDecoded = NoResult /\ outBuilt = NoResult /\ lookupKey = "" /\ result = NoResult

InitArgs ==
  /\ subject \in {HelperFromSpec(HelperSexp(<<"h">>, Arr(params), Arr(ArgPairs(values, 1)))) :
                     params \in SeqUpTo(ArgParts, MaxArgs), values \in SeqUpTo(ArgParts, MaxArgs)}
  /\ frame = DefaultFrame
  /\ reference = NoResult
  /\ evals = <<>>
  /\ notified = NoResult
  /\ pulled = NoResult
  /\ pc = "args"
  /\ IdleArgs

\* reference = subject.evaluate(frame): a HelperInvocationReference on the
\* EvaluatedParamsAndHash of the arguments
EvaluateArgs ==
  /\ reference = NoResult
  /\ reference' = HelperEvaluate(subject, frame)
  /\ UNCHANGED <<notified, pulled, specs, frame, arrays, templates, origin, builder,
                 heldTemplate, stack, result, dump, pc, parity, decodedNode, builtNode,
                 outDecoded, outBuilt, subject, evals, lookupKey>>

\* the composite references that an invalidation pushed by src reaches
ReachedBy(src) ==
  {c \in SourcedTypes :
     \/ c = "HelperInvocationReference" /\ Reaches(reference, src)
     \/ c = "EvaluatedParamsAndHash" /\ Reaches(reference.args, src)
     \/ c = "EvaluatedParams" /\ Reaches(reference.args.paramsRef, src)
     \/ c = "EvaluatedHash" /\ Reaches(reference.args.hashRef, src)}

\* the value under a name of the scope changes: the path reference of the
\* name pushes an invalidation, and what was pulled is out of date
PushValue(name, v) ==
  /\ reference # NoResult
  /\ frame.scope[name] # v
  /\ frame' = [frame EXCEPT !.scope[name] = v]
  /\ notified' = [type |-> "push", source |-> name,
                  reached |-> ReachedBy(PathReference(<<name>>))]
  /\ pulled' = NoResult
  /\ UNCHANGED <<specs, arrays, templates, origin, builder, heldTemplate, stack, result, dump,
                 pc, parity, decodedNode, builtNode, outDecoded, outBuilt, subject, reference,
                 evals, lookupKey>>

\* pulled = the arguments' value(), as HelperInvocationReference.value() takes it
PullArgs ==
  /\ reference # NoResult
  /\ pulled' = EvaluatedParamsAndHashValue(reference.args, frame.scope)
  /\ UNCHANGED <<notified, specs, frame, arrays, templates, origin, builder, heldTemplate,
                 stack, result, dump, pc, parity, decodedNode, builtNode, outDecoded, outBuilt,
                 subject, reference, evals, lookupKey>>

NextArgs ==
  \/ EvaluateArgs
  \/ \E name \in {"a", "b"}, v \in {"A", "B", "z"} : PushValue(name, v)
  \/ PullArgs

SpecArgs == InitArgs /\ [][NextArgs]_vars

\* the expression reads the name from the scope
Reads(expr, name) == expr.type = "get" /\ expr.ref.parts = <<name>>

ReadByParams(name) ==
  \E i \in 1..Len(subject.args.params.params) : Reads(subject.args.params.params[i], name)

ReadByHash(name) ==
  \E i \in 1..Len(subject.args.hash.values) : Reads(subject.args.hash.values[i], name)

\* the value an argument expression has now
ArgValue(expr) == IF expr.type = "value" THEN expr.value ELSE frame.scope[expr.ref.parts[1]]

\* C14: an invalidation pushed by the reference of a positional param or of
\* a hash value reaches the evaluated composite it belongs to, the
\* EvaluatedParamsAndHash and the helper invocation chained on it; and a
\* pull of the arguments gives the params and the hash with the values the
\* children have now.
C14_SourcesRegistered ==
  /\ notified.type = "push" =>
       /\ ReadByParams(notified.source) =>
            {"EvaluatedParams", "EvaluatedParamsAndHash", "HelperInvocationReference"}
              \subseteq notified.reached
       /\ ReadByHash(notified.source) =>
            {"EvaluatedHash", "EvaluatedParamsAndHash", "HelperInvocationReference"}
              \subseteq notified.reached
  /\ pulled.type = "value" =>
       /\ Len(pulled.params) = Len(subject.args.params.params)
       /\ \A i \in 1..Len(pulled.params) :
            pulled.params[i] = ArgValue(subject.args.params.params[i])
       /\ DOMAIN pulled.hash = {subject.args.hash.keys[i] : i \in 1..Len(subject.args.hash.keys)}
       /\ \A i \in 1..Len(subject.args.hash.keys) :
            pulled.hash[subject.args.hash.keys[i]] = ArgValue(subject.args.hash.values[i])


LinkTags == {"block", "component"}

\* the reference is the decoded Template at the position the id names
IsTemplateAt(ref, id) ==
  /\ ref.type = "template"
  /\ templates[ref.id].position = id

\* whatever the id, as long as it is within the spec array
ResolvesAny(id, ref) ==
  IF id.type = "null" THEN ref = NullRef
  ELSE id.n < Len(specs) => IsTemplateAt(ref, id)

\* an id below the index of the template that holds the statement resolves
\* to the Template at that position; its own index or a later one gives no
\* Template, the slot being unfilled when the statement is decoded
ResolvesEarlier(id, ref, own) ==
  IF id.type = "null" THEN ref = NullRef
  ELSE IF id.n < own THEN IsTemplateAt(ref, id)
  ELSE ref = UndefRef

\* the last template is returned, positions are indices, the root is shared
PositionsRight ==
  /\ heldTemplate = TemplateRef(Len(specs))
  /\ Len(templates) = Len(specs)
  /\ \A j \in 1..Len(specs) :
       /\ templates[j].position = Id(j - 1)
       /\ templates[j].root = templates[1].root
       /\ templates[j].root.length = Len(specs)

\* as stated: after Template.fromSpec(specs) every non-null templateId and
\* inverseId within the bounds of specs, of a block or component at any
\* position, resolves to the decoded Template at that position, an id at or
\* after its own template's index included.
C15_AnyIdResolves ==
  Decoded =>
    /\ PositionsRight
    /\ \A j \in 1..Len(specs) : \A i \in 1..Len(specs[j].statements) :
         specs[j].statements[i].head \in LinkTags =>
           /\ ResolvesAny(specs[j].statements[i].templateId,
                          DecodedStatements(j)[i].templates._default)
           /\ ResolvesAny(specs[j].statements[i].inverseId,
                          DecodedStatements(j)[i].templates._inverse)

\* C15: after Template.fromSpec(specs), for a block or component in the
\* template at index i, a templateId or inverseId j < i resolves to the
\* decoded Template whose position is j, an id j >= i resolves to no
\* Template (undefined), and a null id to null; the template returned is
\* the last one, every template's position is its index, and all share one
\* root array.
C15_EarlierIdResolves ==
  Decoded =>
    /\ PositionsRight
    /\ \A j \in 1..Len(specs) : \A i \in 1..Len(specs[j].statements) :
         specs[j].statements[i].head \in LinkTags =>
           /\ ResolvesEarlier(specs[j].statements[i].templateId,
                              DecodedStatements(j)[i].templates._default, j - 1)
           /\ ResolvesEarlier(specs[j].statements[i].inverseId,
                              DecodedStatements(j)[i].templates._inverse, j - 1)

\* a block in the middle template of three: its templateId 0 is resolved
\* to the first template, its inverseId 2 to nothing
C15_Witness ==
  /\ pc = "decoded"
  /\ Len(specs) = 3
  /\ specs[2].statements[1].head = "block"
  /\ specs[2].statements[1].templateId = Id(0)
  /\ specs[2].statements[1].inverseId.type = "num"
  /\ specs[2].statements[1].inverseId.n = 2
  /\ DecodedStatements(2)[1].templates._default = TemplateRef(1)
  /\ DecodedStatements(2)[1].templates._inverse = UndefRef


----------------------------------------------------------------------------
(* The fallback run: a component decoded with a hash and a sub-template id, *)
(* evaluated on a frame that has neither a definition nor a helper for it,  *)
(* its render node appended and updated while the scope changes.            *)

MaxAttrs == 2

AttrKeys == {"id", "title"}

AttrValues == {Lit("x"), Lit("#1"), GetSexp(<<"a">>), ConcatSexp(Arr(<<Lit("y"), GetSexp(<<"b">>)>>))}

\* the flat pairs of a list of <<key, expression>> entries
RECURSIVE FlatPairs(_)
FlatPairs(entries) ==
  IF Len(entries) = 0 THEN <<>>
  ELSE <<Lit(entries[1][1]), entries[1][2]>> \o FlatPairs(Tail(entries))

AttrHashes ==
  {Absent} \cup {Arr(FlatPairs(entries)) : entries \in SeqUpTo(AttrKeys \X AttrValues, MaxAttrs)}

\* the sub-template: empty, one statement, two statements
BodySpecs ==
  {TemplateSpec(<<>>), TemplateSpec(<<TextSexp>>), TemplateSpec(<<TextSexp, CommentSexp>>)}

FallbackSpecs ==
  {<<body, TemplateSpec(<<[head |-> "component", path |-> "x-foo", attrs |-> attrs,
                          templateId |-> t, inverseId |-> NullRef]>>)>> :
     body \in BodySpecs, attrs \in AttrHashes, t \in {Id(0), NullRef}}

InitFallback ==
  /\ specs \in FallbackSpecs
  /\ frame = DefaultFrame
  /\ arrays = << <<>> >>
  /\ templates = <<>>
  /\ origin = <<>>
  /\ heldTemplate = NoResult
  /\ stack = NoResult
  /\ result = NoResult
  /\ dump = NoResult
  /\ pc = "start"
  /\ Idle

\* the component statement of the decoded template
ComponentNode == arrays[templates[heldTemplate.id].statements][1]

\* stack = new ElementStack; node.evaluate(stack, frame)
EvaluateComponent ==
  /\ pc = "decoded"
  /\ stack' = ComponentEvaluate(ComponentNode, NewElementStack, frame)
  /\ pc' = "created"
  /\ UNCHANGED <<notified, pulled, specs, frame, arrays, templates, origin, builder,
                 heldTemplate, result, dump, parity, decodedNode, builtNode, outDecoded,
                 outBuilt, subject, reference, evals, lookupKey>>

AppendReturns(r) ==
  /\ stack' = r.stack
  /\ result' = IF IsError(r) THEN TypeError ELSE NoResult
  /\ pc' = IF IsError(r) THEN "thrown" ELSE "appended"

\* morph.append(stack)
AppendFallback ==
  /\ pc = "created"
  /\ AppendReturns(FallbackMorphAppend(stack.morphs[1], stack, frame, templates, arrays))
  /\ UNCHANGED <<notified, pulled, specs, frame, arrays, templates, origin, builder,
                 heldTemplate, dump, parity, decodedNode, builtNode, outDecoded, outBuilt,
                 subject, reference, evals, lookupKey>>

\* the value of a in the scope changes
ChangeScope(v) ==
  /\ pc \in {"created", "appended"}
  /\ frame.scope.a # v
  /\ frame' = [frame EXCEPT !.scope.a = v]
  /\ UNCHANGED <<notified, pulled, specs, arrays, templates, origin, builder, heldTemplate,
                 stack, result, dump, pc, parity, decodedNode, builtNode, outDecoded, outBuilt,
                 subject, reference, evals, lookupKey>>

\* morph.update()
UpdateFallback ==
  /\ pc \in {"appended", "updated"}
  /\ stack' = [stack EXCEPT !.morphs[1] = FallbackMorphUpdate(@)]
  /\ pc' = "updated"
  /\ UNCHANGED <<notified, pulled, specs, frame, arrays, templates, origin, builder,
                 heldTemplate, result, dump, parity, decodedNode, builtNode, outDecoded,
                 outBuilt, subject, reference, evals, lookupKey>>

NextFallback ==
  \/ FromSpec
  \/ EvaluateComponent
  \/ AppendFallback
  \/ \E v \in {"A", "z"} : ChangeScope(v)
  \/ UpdateFallback

SpecFallback == InitFallback /\ [][NextFallback]_vars


\* the render node exists: Component.evaluate has created it
Created == pc \in {"created", "appended", "thrown", "updated"}

\* the i-th attribute is the one the i-th hash entry is to give
AttrRight(attr, key, val) ==
  IF val.type = "value"
  THEN /\ attr.type = "static-attr"
       /\ attr.name = key
       /\ attr.value = val.value
       /\ attr.namespace = JsNull
  ELSE /\ attr.type = "dynamic-attr"
       /\ attr.name = key
       /\ attr.value = val
       /\ attr.namespace = JsNull

\* C16: the fallback render node holds one attribute per entry of the
\* component's hash, in key order: a static attribute with the constant for
\* a Value expression, a dynamic attribute with the unevaluated expression
\* for any other; the list, the tag and the template are those of init
\* after append, after changes of the scope and after update().
C16_AttrsFromHash ==
  Created =>
    /\ stack.morphs[1].type = "FallbackMorph"
    /\ stack.morphs[1].tag = "x-foo"
    /\ stack.morphs[1].template = ComponentNode.templates._default
    /\ Len(stack.morphs[1].attrs) = Len(ComponentNode.hash.keys)
    /\ \A i \in 1..Len(ComponentNode.hash.keys) :
         AttrRight(stack.morphs[1].attrs[i], ComponentNode.hash.keys[i],
                   ComponentNode.hash.values[i])

\* a hash of a constant and a lookup under the same key, after a change of
\* the scope and update(): a static attribute, then a dynamic one
C16_Witness ==
  /\ pc = "updated"
  /\ frame.scope.a = "z"
  /\ ComponentNode.hash.keys = <<"id", "id">>
  /\ stack.morphs[1].attrs[1].type = "static-attr"
  /\ stack.morphs[1].attrs[1].value = "x"
  /\ stack.morphs[1].attrs[2].type = "dynamic-attr"
  /\ stack.morphs[1].attrs[2].value.type = "get"


\* append has run, to its end or to an exception
AppendRan == pc \in {"appended", "thrown", "updated"}

\* the calls made on the stack since the render node was created
AppendCalls == SubSeq(stack.calls, 2, Len(stack.calls))

IsOpenElement(call) == call.op = "openElement"

IsCloseElement(call) == call.op = "closeElement"

\* the kinds of the statements of the default sub-template, when the
\* component has one
BodyTypes ==
  IF ComponentNode.templates._default.type # "template" THEN <<>>
  ELSE [i \in 1..Len(arrays[templates[ComponentNode.templates._default.id].statements]) |->
          arrays[templates[ComponentNode.templates._default.id].statements][i].type]

AttrTypes == [i \in 1..Len(stack.morphs[1].attrs) |-> stack.morphs[1].attrs[i].type]

\* C18: for every fallback component, whatever its hash and whether its
\* default sub-template is non-empty, empty or absent, append runs to its
\* end with balanced calls: openElement(tag) once and first, one
\* appendStatement per attribute in order, the statements of the
\* sub-template when there is a non-empty one, closeElement once and last.
C18_BalancedAppend ==
  AppendRan =>
    /\ pc # "thrown"
    /\ result # TypeError
    /\ AppendCalls[1].op = "openElement"
    /\ AppendCalls[1].tag = "x-foo"
    /\ AppendCalls[Len(AppendCalls)].op = "closeElement"
    /\ Len(SelectSeq(AppendCalls, IsOpenElement)) = 1
    /\ Len(SelectSeq(AppendCalls, IsCloseElement)) = 1
    /\ AppendedTypes(AppendCalls) = AttrTypes \o BodyTypes

====
